---- MODULE Spec2Model ----
(***************************************************************************)
(* Model of the ingestion / reconciliation / archival pipeline of          *)
(* sant-express_api: app/core/scheduler.py (the scheduled DataUpdater),    *)
(* scripts/data_updater.py (the stand-alone DataUpdater), the facility     *)
(* endpoints of app/api/etablissements.py and the text and validation      *)
(* helpers they call.  The data store is modelled as the committed tables  *)
(* plus the open SQLAlchemy session of the running cycle (autoflush off).  *)
(***************************************************************************)
EXTENDS Integers, Sequences, FiniteSets, TLC

\* ------------------------------------------------------------------ bounds
MaxCycles == 2
MaxRows == 2
MaxId == 2
MaxBackfills == 2
MaxLen == 3
\* max_retries of wait_for_database (30 in the source)
MaxRetries == 3

\* -------------------------------------------------------------- constants
\* Python None for a text column / value (never a sequence of characters).
NullText == <<"NULL">>
\* Python None / SQL NULL for a numeric value; a present number n is <<n>>.
NoneNum == <<>>
\* "no facility": the None that _find_etablissement returns on an error.
NoFacility == 0
RangeMin == 0
RangeMax == 1000

\* ------------------------------------------------------------- text model
\* A text is a sequence of one-character strings.
Lower(c) ==
  CASE c = "É" -> "é"
    [] c = "Ã" -> "ã"
    [] c = "P" -> "p"
    [] OTHER -> c

\* unicodedata.normalize('NFD', .) followed by dropping category Mn.
Unaccent(c) ==
  CASE c = "é" -> "e"
    [] c = "É" -> "E"
    [] c = "ã" -> "a"
    [] c = "Ã" -> "A"
    [] OTHER -> c

IsSpace(c) == c = " "
IsWord(c) == c \in {"a", "b", "e", "é", "É", "ã", "Ã", "p", "P", "_", "1", "2"}
IsPunct(c) == ~IsSpace(c) /\ ~IsWord(c)

\* ftfy.fix_text: the UTF-8-read-as-Latin-1 pair "Ã©" is repaired to "é".
RECURSIVE Ftfy(_)
Ftfy(t) ==
  IF Len(t) = 0 THEN <<>>
  ELSE IF Len(t) >= 2 /\ t[1] = "Ã" /\ t[2] = "©"
       THEN <<"é">> \o Ftfy(SubSeq(t, 3, Len(t)))
       ELSE <<t[1]>> \o Ftfy(Tail(t))

fix_text_encoding(text) == IF text = NullText THEN text ELSE Ftfy(text)

PunctToSpace(c) == IF IsPunct(c) THEN " " ELSE c

\* re.sub(r'\s+', ' ', text).strip()
RECURSIVE Collapse(_, _)
Collapse(t, acc) ==
  IF Len(t) = 0 THEN acc
  ELSE IF IsSpace(t[1]) /\ (Len(acc) = 0 \/ IsSpace(acc[Len(acc)]))
       THEN Collapse(Tail(t), acc)
       ELSE Collapse(Tail(t), Append(acc, IF IsSpace(t[1]) THEN " " ELSE t[1]))

RStrip(t) == IF Len(t) > 0 /\ IsSpace(t[Len(t)]) THEN SubSeq(t, 1, Len(t) - 1) ELSE t

CollapseSpaces(t) == RStrip(Collapse(t, <<>>))

normalize_text(text, remove_accents) ==
  IF text = NullText THEN <<>>
  ELSE LET fixed == fix_text_encoding(text)
           lowered == [i \in 1..Len(fixed) |-> Lower(fixed[i])]
           folded == IF remove_accents
                     THEN [i \in 1..Len(lowered) |-> Unaccent(lowered[i])]
                     ELSE lowered
       IN  CollapseSpaces([i \in 1..Len(folded) |-> PunctToSpace(folded[i])])

\* The characters of the texts given to normalize_text, and the texts: up
\* to MaxLen characters, or None.
TextChars == {"a", "É", " ", "-", "_", "Ã", "©"}
Texts == UNION {[1..len -> TextChars] : len \in 0..MaxLen} \cup {NullText}

\* Punctuation characters (string.punctuation, Unicode categories P*).
Punctuation == {"-", "_"}

\* str.strip() of a permit number
RECURSIVE LStrip(_)
LStrip(t) == IF Len(t) > 0 /\ IsSpace(t[1]) THEN LStrip(Tail(t)) ELSE t
RECURSIVE RStripAll(_)
RStripAll(t) == IF Len(t) > 0 /\ IsSpace(t[Len(t)]) THEN RStripAll(SubSeq(t, 1, Len(t) - 1)) ELSE t
Strip(t) == RStripAll(LStrip(t))

\* SQL  column ILIKE '%' || key || '%' : case-insensitive, '_' in the key
\* matches any single character, a NULL column matches nothing.
Ilike(stored, key) ==
  /\ stored # NullText
  /\ \E o \in 0..(Len(stored) - Len(key)) :
       \A j \in 1..Len(key) : key[j] = "_" \/ Lower(key[j]) = Lower(stored[o + j])

\* Python  key in name
IsSubstring(key, name) ==
  \E o \in 0..(Len(name) - Len(key)) : \A j \in 1..Len(key) : key[j] = name[o + j]

\* ------------------------------------------------------------- feed rows
Permits == {<<>>, <<"P">>}
NomsInstallation == {<<>>, <<"a">>, <<"É", "-", "a">>}
NomsEtablissement == {<<>>, <<"b">>}
CivieresFonctionnelles == {0 - 1, 0, 2}
CivieresOccupees == {1, 3}
DmsCivieres == {5}
\* RSS and Region cells: blank, a value, or NaN (a column of empty cells)
Rss == {<<>>, <<"0", "3">>, NullText}
RegionNames == {<<>>, <<"C">>, NullText}

\* A raw feed row (after the column renaming of process_urgences_data).
RawRows ==
  [no_permis_installation : Permits,
   nom_installation : NomsInstallation,
   nom_etablissement : NomsEtablissement,
   civieres_fonctionnelles : CivieresFonctionnelles,
   civieres_occupees : CivieresOccupees,
   dms_civiere : DmsCivieres,
   rss : Rss,
   region : RegionNames]

\* The column a feed may lack (a feed lacks at most one of them here).
Columns == {"civieres_fonctionnelles", "civieres_occupees", "dms_civiere"}
AbsentChoices == {"none"} \cup Columns

\* validate_numeric_range: a row is kept iff the value is a number in range.
InRange(v, min_val, max_val) == ~(v < min_val \/ v > max_val)

\* process_urgences_data, per row: TRUE iff the row survives the two range
\* validations (a validation is skipped when its column is absent).
RowKept(raw, missing) ==
  /\ (missing # "civieres_fonctionnelles"
        => InRange(raw.civieres_fonctionnelles, RangeMin, RangeMax))
  /\ (missing # "civieres_occupees"
        => InRange(raw.civieres_occupees, RangeMin, RangeMax))

\* The row as _update_database sees it: an absent column has no value.
Processed(raw, missing) ==
  [no_permis_installation |-> raw.no_permis_installation,
   nom_installation |-> raw.nom_installation,
   nom_etablissement |-> raw.nom_etablissement,
   civieres_fonctionnelles |->
     IF missing = "civieres_fonctionnelles" THEN NoneNum ELSE <<raw.civieres_fonctionnelles>>,
   civieres_occupees |->
     IF missing = "civieres_occupees" THEN NoneNum ELSE <<raw.civieres_occupees>>,
   dms_civiere |-> IF missing = "dms_civiere" THEN NoneNum ELSE <<raw.dms_civiere>>,
   rss |-> raw.rss,
   region |-> raw.region]

\* row.get(col, default)
RowGet(v, default) == IF v = NoneNum THEN default ELSE v

\* occupied / functional * 100 (the values of the model divide exactly)
Taux(occupees, fonctionnelles) == (occupees * 100) \div fonctionnelles

\* ------------------------------------------------- feed rows read as text
\* A column that pandas reads with dtype object: every cell is a text.
IsDigit(c) == c \in {"0", "1", "2", "3", "4", "5", "6", "7", "8", "9"}

Digit(c) ==
  CASE c = "0" -> 0 [] c = "1" -> 1 [] c = "2" -> 2 [] c = "3" -> 3 [] c = "4" -> 4
    [] c = "5" -> 5 [] c = "6" -> 6 [] c = "7" -> 7 [] c = "8" -> 8 [] OTHER -> 9

IsDigits(t) == Len(t) > 0 /\ \A i \in 1..Len(t) : IsDigit(t[i])

RECURSIVE DigitsValue(_)
DigitsValue(t) ==
  IF t = <<>> THEN 0 ELSE 10 * DigitsValue(SubSeq(t, 1, Len(t) - 1)) + Digit(t[Len(t)])

\* pd.to_numeric(errors='coerce') of a text cell: the number, or NaN (no
\* value) when the text is not a number (the numbers of the model are whole).
to_numeric(cell) ==
  IF IsDigits(cell) THEN <<DigitsValue(cell)>>
  ELSE IF Len(cell) > 1 /\ cell[1] = "-" /\ IsDigits(Tail(cell))
       THEN <<0 - DigitsValue(Tail(cell))>>
       ELSE NoneNum

\* str(x).replace(',', '.')
CommaToDot(cell) == [i \in 1..Len(cell) |-> IF cell[i] = "," THEN "." ELSE cell[i]]

\* float(text): the number, or no value for ValueError (the fractions of
\* the durations of the model are zero).
FloatOf(cell) ==
  IF IsDigits(cell) THEN <<DigitsValue(cell)>>
  ELSE IF \E k \in 2..(Len(cell) - 1) :
            /\ cell[k] = "."
            /\ IsDigits(SubSeq(cell, 1, k - 1))
            /\ IsDigits(SubSeq(cell, k + 1, Len(cell)))
       THEN <<DigitsValue(SubSeq(cell, 1,
                (CHOOSE k \in 2..(Len(cell) - 1) : cell[k] = ".") - 1))>>
       ELSE NoneNum

\* fillna(0)
FillNa(v) == IF v = NoneNum THEN <<0>> ELSE v

TextFonctionnelles == {<<"1", "0">>, <<"a", "b">>}
TextOccupees == {<<"7", ",", "5">>, <<"5">>}
TextPatients24h == {<<"1">>, <<"a", "b">>}
TextDms == {<<"2", ":", "3", "0">>, <<"a", "b">>, <<"2", ",", "0">>, <<"5">>}

\* A feed row whose numeric columns were read as text.
TextRows ==
  [civieres_fonctionnelles : TextFonctionnelles,
   civieres_occupees : TextOccupees,
   patients_24h : TextPatients24h,
   dms_civiere : TextDms]

\* The numeric coercion and the range validations of process_urgences_data
\* for one row; by = "core": DataProcessor.process_urgences_data,
\* by = "alt": process_urgences_data of fix_data_mapping_updated.py (no
\* fillna, and dms_civiere is not one of its numeric columns).  outcome:
\* "error" - the function raises (ValueError of float()), "dropped" - a
\* range validation removes the row, "kept".
CoerceUrgencyRow(text, by) ==
  LET dms == FloatOf(CommaToDot(text.dms_civiere))
      fonctionnelles == to_numeric(text.civieres_fonctionnelles)
      occupees == to_numeric(text.civieres_occupees)
      patients_24h == to_numeric(text.patients_24h)
      row == IF by = "core"
             THEN [civieres_fonctionnelles |-> FillNa(fonctionnelles),
                   civieres_occupees |-> FillNa(occupees),
                   patients_24h |-> FillNa(patients_24h),
                   dms_civiere |-> FillNa(dms)]
             ELSE [civieres_fonctionnelles |-> fonctionnelles,
                   civieres_occupees |-> occupees,
                   patients_24h |-> patients_24h,
                   dms_civiere |-> NoneNum]
      valid == /\ row.civieres_fonctionnelles # NoneNum
               /\ InRange(row.civieres_fonctionnelles[1], RangeMin, RangeMax)
               /\ row.civieres_occupees # NoneNum
               /\ InRange(row.civieres_occupees[1], RangeMin, RangeMax)
  IN  [by |-> by, text |-> text, row |-> row,
       outcome |-> IF by = "core" /\ dms = NoneNum THEN "error"
                   ELSE IF valid THEN "kept" ELSE "dropped"]

\* ---------------------------------------------------- range validation
\* The cells of the validated column of a batch.
CellValues == {<<"5">>, <<"2", "0">>, <<"-", "1">>, <<"a", "b">>}

\* The batches given to validate_numeric_range: up to MaxRows rows, each
\* with its position n in the batch and its cell of the validated column.
Batches ==
  UNION {[1..len -> CellValues] : len \in 0..MaxRows}

DataFrame(cells) == [i \in DOMAIN cells |-> [n |-> i, cell |-> cells[i], value |-> NoneNum]]

\* The ranges the validations are called with (max_val of the second one
\* is the bound process_urgences_data uses).
Ranges == {[min_val |-> 0, max_val |-> 10], [min_val |-> RangeMin, max_val |-> RangeMax]}

\* df[~invalid_mask]: the rows whose mask is False, in the order of df.
RECURSIVE Unmasked(_, _)
Unmasked(df, invalid_mask) ==
  IF df = <<>> THEN <<>>
  ELSE LET rest == Unmasked(Tail(df), Tail(invalid_mask))
       IN  IF Head(invalid_mask) THEN rest ELSE <<Head(df)>> \o rest

\* validate_numeric_range, were its mask to leave out isna().
validate_numeric_range_without_isna(df, has_column, min_val, max_val) ==
  IF ~has_column
  THEN [df |-> df, anomalies |-> <<[type |-> "validation", rows |-> 0]>>]
  ELSE LET coerced == [i \in DOMAIN df |-> [df[i] EXCEPT !.value = to_numeric(df[i].cell)]]
           invalid_mask ==
             [i \in DOMAIN df |->
                /\ coerced[i].value # NoneNum
                /\ \/ coerced[i].value[1] < min_val
                   \/ coerced[i].value[1] > max_val]
           invalid_rows == {i \in DOMAIN df : invalid_mask[i]}
       IN  [df |-> Unmasked(coerced, invalid_mask),
            anomalies |->
              IF invalid_rows # {}
              THEN <<[type |-> "validation", rows |-> Cardinality(invalid_rows)]>>
              ELSE <<>>]

\* DataValidator.validate_numeric_range(df, column, min_val, max_val):
\* the DataFrame it returns and the anomalies it logs.  has_column: column
\* is one of df.columns.  A comparison with NaN is False.
validate_numeric_range(df, has_column, min_val, max_val) ==
  IF ~has_column
  THEN [df |-> df, anomalies |-> <<[type |-> "validation", rows |-> 0]>>]
  ELSE LET coerced == [i \in DOMAIN df |-> [df[i] EXCEPT !.value = to_numeric(df[i].cell)]]
           invalid_mask ==
             [i \in DOMAIN df |->
                \/ coerced[i].value = NoneNum
                \/ coerced[i].value[1] < min_val
                \/ coerced[i].value[1] > max_val]
           invalid_rows == {i \in DOMAIN df : invalid_mask[i]}
       IN  [df |-> Unmasked(coerced, invalid_mask),
            anomalies |->
              IF invalid_rows # {}
              THEN <<[type |-> "validation", rows |-> Cardinality(invalid_rows)]>>
              ELSE <<>>]

\* No text was normalized yet.
NoText == [text |-> <<>>, remove_accents |-> FALSE, once |-> <<>>, twice |-> <<>>, calls |-> 0]

\* wait_for_database was not called yet.  pc: "idle", "waiting" (in the
\* loop), "returned", "raised" (an exception left the function); attempts:
\* the outcome of each connection attempt made; result: what the function
\* returned; before: the calls of update_urgences_data made when it was
\* called.
NotWaiting == [pc |-> "idle", attempts |-> <<>>, result |-> "none", before |-> 0]

\* The loop of wait_for_database, were a successful attempt not to return.
wait_for_database_without_return(w, outcome, max_retries) ==
  LET attempts == Append(w.attempts, outcome)
  IN  IF outcome \notin {"ok", "OperationalError"}
      THEN [w EXCEPT !.pc = "raised", !.attempts = attempts]
      ELSE IF Len(attempts) = max_retries
      THEN [w EXCEPT !.pc = "returned", !.attempts = attempts,
                     !.result = IF outcome = "ok" THEN "True" ELSE "False"]
      ELSE [w EXCEPT !.attempts = attempts]

\* One iteration of the loop of wait_for_database: a connection attempt
\* with its outcome.  "ok": return True; OperationalError: sleep and go on,
\* return False after the last iteration; any other exception is not
\* caught.
wait_for_database(w, outcome, max_retries) ==
  LET attempts == Append(w.attempts, outcome)
  IN  IF outcome = "ok"
      THEN [w EXCEPT !.pc = "returned", !.attempts = attempts, !.result = "True"]
      ELSE IF outcome # "OperationalError"
      THEN [w EXCEPT !.pc = "raised", !.attempts = attempts]
      ELSE IF Len(attempts) = max_retries
      THEN [w EXCEPT !.pc = "returned", !.attempts = attempts, !.result = "False"]
      ELSE [w EXCEPT !.attempts = attempts]

\* A DataValidator that has validated nothing yet.
NoValidation ==
  [calls |-> 0, df |-> <<>>, has_column |-> TRUE, min_val |-> 0, max_val |-> 0,
   result |-> <<>>, logged |-> 0, anomalies |-> <<>>]

\* No feed was read yet.
NoFeed ==
  [by |-> "none",
   text |-> [civieres_fonctionnelles |-> <<>>, civieres_occupees |-> <<>>,
             patients_24h |-> <<>>, dms_civiere |-> <<>>],
   row |-> [civieres_fonctionnelles |-> NoneNum, civieres_occupees |-> NoneNum,
            patients_24h |-> NoneNum, dms_civiere |-> NoneNum],
   outcome |-> "none"]

\* ------------------------------------------------------- regions table
NoRegion == 0
Region03 == [id |-> 1, rss |-> <<"0", "3">>, nom_normalise |-> <<"c">>]
Region06 == [id |-> 2, rss |-> <<"0", "6">>, nom_normalise |-> <<"m">>]
QuebecRegions == {Region03, Region06}
Registries == SUBSET QuebecRegions

\* REGIONS_QUEBEC, and the equal lists of both init_regions: the regions of
\* the model.
REGIONS_QUEBEC ==
  <<[rss |-> <<"0", "3">>, nom |-> <<"c">>], [rss |-> <<"0", "6">>, nom |-> <<"m">>]>>

\* The id a SERIAL column gives to the next row of a table.
NextSerial(table) ==
  IF table = {} THEN 1
  ELSE (CHOOSE n \in {r.id : r \in table} : \A r \in table : r.id <= n) + 1

\* nom_normalise as create_tables.py computes it: lower(), '-' replaced by
\* ' ', the accented letters replaced.
ReplaceAccents(nom) ==
  [i \in 1..Len(nom) |-> IF nom[i] = "-" THEN " " ELSE Unaccent(Lower(nom[i]))]

\* db.add of a Region (INSERT of create_tables.py when by_sql) for every
\* entry of the list, then the commit.
RECURSIVE InsertRegions(_, _, _)
InsertRegions(table, pending, by_sql) ==
  IF pending = <<>> THEN table
  ELSE InsertRegions(
         table \cup {[id |-> NextSerial(table), rss |-> Head(pending).rss,
                      nom_normalise |-> IF by_sql THEN ReplaceAccents(Head(pending).nom)
                                        ELSE normalize_text(Head(pending).nom, TRUE)]},
         Tail(pending), by_sql)

\* The initialisers that count the rows first (initialize_database,
\* initialize_regions of init_db.py and of create_tables.py,
\* _initialize_regions): the table after a run.
initialize_regions(table, by_sql) ==
  IF Cardinality(table) > 0 THEN table
  ELSE InsertRegions(table, REGIONS_QUEBEC, by_sql)

\* exists of init_regions: the query of the row with the code (the session
\* does not flush before a query, the query reads the table).
RegionExists(table, rss) == \E r \in table : r.rss = rss

\* init_regions, were every region of the list added.
init_regions_without_exists(table) ==
  InsertRegions(table, REGIONS_QUEBEC, FALSE)

\* init_regions (fix_tables.py, init_regions.py): the table after a run.
init_regions(table) ==
  InsertRegions(table,
                SelectSeq(REGIONS_QUEBEC, LAMBDA region_data : ~RegionExists(table, region_data.rss)),
                FALSE)

\* The regions tables a run of an initialiser can find: any rows of the
\* regions of Quebec, of a second row with the code 03 (a table without
\* the constraint UNIQUE(rss)) and of a row with another code.
StartingRows ==
  QuebecRegions \cup {[id |-> 3, rss |-> <<"0", "3">>, nom_normalise |-> <<"c">>],
                      [id |-> 4, rss |-> <<"9", "9">>, nom_normalise |-> <<"a">>]}

\* The initialisers: by_count, the ones that count the rows first.
Initialisers ==
  {"initialize_database", "init_db.initialize_regions", "create_tables.initialize_regions",
   "_initialize_regions", "fix_tables.init_regions", "init_regions.init_regions"}
PerCode == {"fix_tables.init_regions", "init_regions.init_regions"}

\* str(rss) of a cell: NaN prints as "nan"
StrOf(cell) == IF cell = NullText THEN <<"n", "a", "n">> ELSE cell

\* .first() of a query on regions: the ids it can return.
FirstRegion(hits) == {r.id : r \in hits}

\* _find_region_id (scheduler.py): the ids it can return for a row.
find_region_id(regs, rss, region_name) ==
  LET code == Strip(StrOf(rss))
      by_rss == IF code # <<>> THEN {r \in regs : r.rss = code} ELSE {}
      region_name_norm == normalize_text(region_name, TRUE)
      by_name == IF by_rss = {} /\ region_name # <<>>
                 THEN {r \in regs : Ilike(r.nom_normalise, region_name_norm)} ELSE {}
      montreal == {r \in regs : r.rss = <<"0", "6">>}
  IN  IF by_rss # {} THEN FirstRegion(by_rss)
      ELSE IF by_name # {} THEN FirstRegion(by_name)
      ELSE IF montreal # {} THEN FirstRegion(montreal)
      ELSE IF regs # {} THEN FirstRegion(regs)
      ELSE {NoRegion}

\* The region _find_etablissement (data_updater.py) gives a new facility.
ScriptRegionId(regs) ==
  LET montreal == {r \in regs : r.rss = <<"0", "6">>}
  IN  IF montreal # {} THEN FirstRegion(montreal)
      ELSE IF regs # {} THEN FirstRegion(regs)
      ELSE {NoRegion}

\* ------------------------------------------------------ reference catalog
DefaultInfo ==
  [source_id |-> "GEN", type |-> "Hôpital", adresse |-> "À compléter",
   code_postal |-> "", ville |-> "À compléter", province |-> "Québec"]

OdhfInfo ==
  [source_id |-> "ODHF-000001", type |-> "Hospitals", adresse |-> "1 rue A",
   code_postal |-> "H1H", ville |-> "", province |-> "Québec"]

Catalogs == {<<>>, <<[nom |-> <<"e", " ", "a">>, info |-> OdhfInfo]>>}

\* ----------------------------------------------------------------- state
VARIABLES
  threads,                  \* the scheduler process: its scheduler and where each thread is
  regions,                  \* the regions table
  unique_etablissement_id,  \* the schema has UNIQUE(urgences_etat_actuel.etablissement_id)
  validator,                \* DataValidator: its anomalies and the latest range validation
  normalized,               \* the latest text given to normalize_text and what it returned
  connection,               \* wait_for_database: the attempts made and what it returned
  seeding,                  \* the runs of the region initialisers
  etablissements_info,      \* DataUpdater.etablissements_info (the ODHF catalog)
  etablissements,           \* committed table etablissements (set of rows)
  urgences_etat_actuel,     \* committed table, in insertion order
  urgences_historique,      \* committed table, in insertion order
  next_id,                  \* etablissements.id sequence
  db,                       \* the open Session of the running cycle
  pc,                       \* "idle" or "rows" (inside _update_database)
  variant,                  \* which DataUpdater runs the cycle: "core" or "script"
  absent,                   \* the column the feed of this cycle lacks
  date_extraction,          \* datetime.now() of the latest cycle (a counter)
  rows_done,                \* rows of the feed iterated so far
  etablissement,            \* result of the latest _find_etablissement
  applied,                  \* facilities whose row was applied without error in this cycle
  ingested,                 \* rows resolved in committed cycles, with their facility
  df_urgences,              \* the feed row read last and what process_urgences_data made of it
  backfills                 \* the backfill jobs run since the latest cycle began, in order

vars == <<threads, regions, unique_etablissement_id, validator, normalized, connection, seeding, etablissements_info, etablissements,
          urgences_etat_actuel, urgences_historique, next_id, db, pc, variant,
          absent, date_extraction, rows_done, etablissement, applied, ingested,
          df_urgences, backfills>>

\* datetime.now(): the clock advances with every cycle and every backfill
\* run.
Now == <<date_extraction, Len(backfills)>>

\* The threads that call update_urgences_data in the scheduler process:
\* the main thread (the initial update of __main__) and the worker thread
\* of the job "update_urgences".
Threads == {"main", "update_urgences"}

\* The process before start_scheduler is called.  pc: "init" - before
\* start_scheduler; "idle" - not in update_urgences_data; "read" - the
\* feed is downloaded and processed; "rows" - in _update_database, from
\* the first row to the commit; "sleep" - the loop that keeps the process
\* alive.  fired counts the runs of the job.  fix_null_values is the
\* session of the job "fix_null_values": "idle", or "loaded" with the
\* facility rows (etablissements) and the current-state rows (urgences, by
\* row) it has modified and not committed yet.  download is the latest call
\* of update_urgences_data: its number, the updater, what
\* ensure_database_setup returned and what download_file returned for the
\* feed and for the detail feed, whether its transaction was committed and
\* what the call reported when it returned ("none" until then).
NotStarted ==
  [scheduler |-> "stopped",
   pc |-> [t \in Threads |-> IF t = "main" THEN "init" ELSE "idle"],
   rows_done |-> [t \in Threads |-> 0],
   fired |-> 0,
   fix_null_values |-> [pc |-> "idle", etablissements |-> {}, urgences |-> <<>>],
   download |-> [n |-> 0, by |-> "core", setup |-> TRUE, urgences |-> TRUE, details |-> TRUE,
                 committed |-> FALSE, report |-> "none"]]

\* SQL NULL of a text column that the model keeps as a plain string
Null == "NULL"

\* The identity part of a row: what "an identical row" means.
RowKey(row) == <<row.no_permis_installation, row.nom_installation, row.nom_etablissement>>

\* What _find_etablissement returned for row number n of the feed: the
\* facility id (NoFacility for None) and how it was obtained.
NoResult ==
  [n |-> 0, key |-> <<>>, rss |-> <<>>, region |-> <<>>, id |-> NoFacility, state |-> "none"]
Result(n, row, id, state) ==
  [n |-> n, key |-> RowKey(row), rss |-> row.rss, region |-> row.region,
   id |-> id, state |-> state]

\* --------------------------------------------------------------- session
\* A Session holds what its transaction sees: fac, cur, hist are the tables
\* with the flushed inserts and the attribute changes of loaded objects;
\* new_cur, new_hist are objects added with db.add() and not flushed yet
\* (autoflush=False: no query sees them); resolved are the rows resolved
\* since the transaction began.
SessionLocal ==
  [fac |-> etablissements, cur |-> urgences_etat_actuel, hist |-> urgences_historique,
   new_cur |-> <<>>, new_hist |-> <<>>, resolved |-> {}]

\* db.rollback(): every uncommitted change of the session is discarded.
Rollback == SessionLocal

\* The unique constraint on urgences_etat_actuel.etablissement_id holds for
\* the rows a flush would leave in the table.
FlushOk(s) ==
  LET all == s.cur \o s.new_cur
  IN  unique_etablissement_id =>
        \A i, j \in DOMAIN all :
          all[i].etablissement_id = all[j].etablissement_id => i = j

\* db.flush(): the pending objects are inserted.
Flush(s) ==
  [s EXCEPT !.cur = s.cur \o s.new_cur, !.hist = s.hist \o s.new_hist,
            !.new_cur = <<>>, !.new_hist = <<>>]

\* query(UrgencesEtatActuel).filter(etablissement_id == id): the rows a
\* query can return; .first() returns one of them, or nothing (0).
CurrentRows(s, id) == {i \in DOMAIN s.cur : s.cur[i].etablissement_id = id}
First(hits) == IF hits = {} THEN {0} ELSE hits

\* ------------------------------------------- facility resolution (core)
PermitBlank(no_permis) == ~(no_permis # <<>> /\ Strip(no_permis) # <<>>)

PermitHits(fac, no_permis) == {f \in fac : f.no_permis_installation = no_permis}
InstallationHits(fac, key) == {f \in fac : Ilike(f.nom_installation_normalise, key)}
EtablissementHits(fac, key) == {f \in fac : Ilike(f.nom_etablissement_normalise, key)}

\* The search of _find_etablissement without its first query (the permit
\* number): installation name, then establishment name.
CoreMatchesNoPermit(fac, row) ==
  LET inst_std == normalize_text(fix_text_encoding(row.nom_installation), TRUE)
      etab_std == normalize_text(fix_text_encoding(row.nom_etablissement), TRUE)
      by_inst == IF inst_std # <<>> THEN InstallationHits(fac, inst_std) ELSE {}
      by_etab == IF by_inst = {} /\ etab_std # <<>>
                 THEN EtablissementHits(fac, etab_std) ELSE {}
  IN  IF by_inst # {} THEN by_inst ELSE by_etab

\* The three queries of _find_etablissement (scheduler.py): the set of
\* facilities the query that decides can return.
CoreMatches(fac, row) ==
  LET no_permis == row.no_permis_installation
      inst_std == normalize_text(fix_text_encoding(row.nom_installation), TRUE)
      etab_std == normalize_text(fix_text_encoding(row.nom_etablissement), TRUE)
      by_permit == IF PermitBlank(no_permis) THEN {} ELSE PermitHits(fac, no_permis)
      by_inst == IF by_permit = {} /\ inst_std # <<>>
                 THEN InstallationHits(fac, inst_std) ELSE {}
      by_etab == IF by_permit = {} /\ by_inst = {} /\ etab_std # <<>>
                 THEN EtablissementHits(fac, etab_std) ELSE {}
  IN  IF by_permit # {} THEN by_permit
      ELSE IF by_inst # {} THEN by_inst
      ELSE by_etab

\* TRUE iff the search of _find_etablissement sends at least one query.
CoreQueries(row) ==
  \/ ~PermitBlank(row.no_permis_installation)
  \/ normalize_text(fix_text_encoding(row.nom_installation), TRUE) # <<>>
  \/ normalize_text(fix_text_encoding(row.nom_etablissement), TRUE) # <<>>

\* _get_etablissement_info: first catalog entry whose key contains one of
\* the two normalized names, else the default values.
RECURSIVE GetEtablissementInfo(_, _, _)
GetEtablissementInfo(catalog, inst_norm, etab_norm) ==
  IF catalog = <<>> THEN DefaultInfo
  ELSE IF \/ (inst_norm # <<>> /\ IsSubstring(inst_norm, catalog[1].nom))
          \/ (etab_norm # <<>> /\ IsSubstring(etab_norm, catalog[1].nom))
       THEN catalog[1].info
       ELSE GetEtablissementInfo(Tail(catalog), inst_norm, etab_norm)

\* The Etablissement(...) that _find_etablissement (scheduler.py) builds.
CoreNewEtablissement(id, row, catalog, region_id) ==
  LET nom_etablissement == fix_text_encoding(row.nom_etablissement)
      nom_installation == fix_text_encoding(row.nom_installation)
      etab_std == normalize_text(nom_etablissement, TRUE)
      inst_std == normalize_text(nom_installation, TRUE)
      info == GetEtablissementInfo(catalog, inst_std, etab_std)
  IN  [id |-> id,
       source_id |-> info.source_id,
       no_permis_installation |-> row.no_permis_installation,
       region_id |-> region_id,
       nom_etablissement |-> nom_etablissement,
       nom_etablissement_normalise |-> etab_std,
       nom_installation |-> nom_installation,
       nom_installation_normalise |-> inst_std,
       type |-> info.type,
       adresse |-> info.adresse,
       code_postal |-> info.code_postal,
       ville |-> info.ville,
       province |-> info.province,
       date_maj |-> Now]

\* ------------------------------------------------ archival and upsert
\* The UrgencesHistorique object _archive_current_data builds from the
\* current row it loaded, when a column is left to its default.
HistoriqueDefaultStatut(current_data) ==
  [etablissement_id |-> current_data.etablissement_id,
   civieres_fonctionnelles |-> current_data.civieres_fonctionnelles,
   civieres_occupees |-> current_data.civieres_occupees,
   dms_civiere |-> current_data.dms_civiere,
   taux_occupation |-> current_data.taux_occupation,
   date_extraction |-> current_data.date_extraction,
   date_maj |-> current_data.date_maj,
   statut_validation |-> "non_validé"]

\* The UrgencesHistorique object _archive_current_data builds from the
\* current row it loaded.
UrgencesHistorique(current_data) ==
  [etablissement_id |-> current_data.etablissement_id,
   civieres_fonctionnelles |-> current_data.civieres_fonctionnelles,
   civieres_occupees |-> current_data.civieres_occupees,
   dms_civiere |-> current_data.dms_civiere,
   taux_occupation |-> current_data.taux_occupation,
   date_extraction |-> current_data.date_extraction,
   date_maj |-> current_data.date_maj,
   statut_validation |-> current_data.statut_validation]

\* _archive_current_data: i is the row .first() returned (0: none).  The
\* copy is added to the session; when the step raises, nothing is added.
ArchiveCurrentData(s, i, raises) ==
  IF i = 0 \/ raises THEN s
  ELSE [s EXCEPT !.new_hist = Append(s.new_hist, UrgencesHistorique(s.cur[i]))]

\* _update_current_data, were it to add a new object whether or not a row
\* exists.
UpdateCurrentDataByInsert(s, j, rec) ==
  [s EXCEPT !.new_cur = Append(s.new_cur, rec)]

\* _update_current_data: j is the row .first() returned (0: none, a new
\* object is added to the session); rec are the values assigned.
UpdateCurrentData(s, j, rec) ==
  IF j = 0 THEN [s EXCEPT !.new_cur = Append(s.new_cur, rec)]
  ELSE [s EXCEPT !.cur[j] = rec]

\* The values _update_current_data (scheduler.py) assigns.
CoreCurrentValues(id, row, date) ==
  LET fonctionnelles == RowGet(row.civieres_fonctionnelles, <<0>>)[1]
      occupees == RowGet(row.civieres_occupees, <<0>>)[1]
      dms == IF row.dms_civiere # NoneNum THEN row.dms_civiere[1] ELSE 0
  IN  [etablissement_id |-> id,
       civieres_fonctionnelles |-> <<fonctionnelles>>,
       civieres_occupees |-> <<occupees>>,
       dms_civiere |-> <<dms>>,
       taux_occupation |->
         IF fonctionnelles # 0 /\ fonctionnelles > 0
         THEN <<Taux(occupees, fonctionnelles)>> ELSE <<0>>,
       date_extraction |-> date,
       date_maj |-> Now,
       statut_validation |-> "validé"]

\* The values _update_current_data (data_updater.py) assigns.
ScriptCurrentValues(id, row, date) ==
  [etablissement_id |-> id,
   civieres_fonctionnelles |-> row.civieres_fonctionnelles,
   civieres_occupees |-> row.civieres_occupees,
   dms_civiere |-> row.dms_civiere,
   taux_occupation |->
     IF row.civieres_fonctionnelles # NoneNum /\ row.civieres_fonctionnelles[1] # 0
        /\ row.civieres_fonctionnelles[1] > 0
     THEN <<Taux(row.civieres_occupees[1], row.civieres_fonctionnelles[1])>>
     ELSE NoneNum,
   date_extraction |-> date,
   date_maj |-> Now,
   statut_validation |-> "validé"]

\* None / number raises TypeError in _update_current_data (data_updater.py).
ScriptTypeError(row) ==
  /\ row.civieres_fonctionnelles # NoneNum
  /\ row.civieres_fonctionnelles[1] > 0
  /\ row.civieres_occupees = NoneNum

\* Archive then upsert for facility id: every session the .first() calls
\* can lead to.  The two calls run the same statement in one transaction
\* with no write in between (the history copy is only added to the
\* session), so they return the same row.
ApplyMeasurement(s, id, rec, archive_raises) ==
  {UpdateCurrentData(ArchiveCurrentData(s, i, archive_raises), i, rec) :
     i \in First(CurrentRows(s, id))}

Resolved(s, row, id) ==
  [s EXCEPT !.resolved = s.resolved \cup {[key |-> RowKey(row), id |-> id, by |-> variant]}]

\* ---------------------------------------- facility resolution (script)
ScriptMatches(fac, row) ==
  LET inst_std == normalize_text(fix_text_encoding(row.nom_installation), TRUE)
      etab_std == normalize_text(fix_text_encoding(row.nom_etablissement), TRUE)
      by_inst == IF inst_std # <<>> THEN InstallationHits(fac, inst_std) ELSE {}
      by_etab == IF by_inst = {} /\ etab_std # <<>>
                 THEN EtablissementHits(fac, etab_std) ELSE {}
  IN  IF by_inst # {} THEN by_inst ELSE by_etab

\* The Etablissement(...) that _find_etablissement (data_updater.py) builds.
ScriptNewEtablissement(id, row, region_id) ==
  LET nom_etablissement == fix_text_encoding(row.nom_etablissement)
      nom_installation == fix_text_encoding(row.nom_installation)
  IN  [id |-> id,
       source_id |-> Null,
       no_permis_installation |-> NullText,
       region_id |-> region_id,
       nom_etablissement |-> nom_etablissement,
       nom_etablissement_normalise |-> normalize_text(nom_etablissement, TRUE),
       nom_installation |-> nom_installation,
       nom_installation_normalise |-> normalize_text(nom_installation, TRUE),
       type |-> Null,
       adresse |-> Null,
       code_postal |-> Null,
       ville |-> Null,
       province |-> "Québec",
       date_maj |-> Now]

\* ----------------------------------------------------------------- Init
\* Everything but the regions table.
EmptyStore ==
  /\ threads = NotStarted
  /\ unique_etablissement_id \in BOOLEAN
  /\ etablissements_info \in Catalogs
  /\ etablissements = {}
  /\ urgences_etat_actuel = <<>>
  /\ urgences_historique = <<>>
  /\ next_id = 1
  /\ db = [fac |-> {}, cur |-> <<>>, hist |-> <<>>,
           new_cur |-> <<>>, new_hist |-> <<>>, resolved |-> {}]
  /\ pc = "idle"
  /\ variant = "core"
  /\ absent = "none"
  /\ date_extraction = 0
  /\ rows_done = 0
  /\ etablissement = NoResult
  /\ applied = {}
  /\ ingested = {}
  /\ df_urgences = NoFeed
  /\ backfills = <<>>
  /\ validator = NoValidation
  /\ normalized = NoText
  /\ connection = NotWaiting
  /\ seeding = [start |-> regions, before |-> regions, runs |-> <<>>]

Init == regions \in Registries /\ EmptyStore

\* -------------------------------------------------------------- actions
\* _update_database up to its loop: the session is opened and
\* date_extraction is taken.
OpenSession(v, missing) ==
  /\ pc = "idle"
  /\ date_extraction < MaxCycles
  /\ pc' = "rows"
  /\ variant' = v
  /\ absent' = missing
  /\ date_extraction' = date_extraction + 1
  /\ db' = SessionLocal
  /\ rows_done' = 0
  /\ etablissement' = NoResult
  /\ applied' = {}
  /\ backfills' = <<>>
  /\ UNCHANGED <<regions, unique_etablissement_id, validator, normalized, connection, seeding, etablissements_info, etablissements,
                 urgences_etat_actuel, urgences_historique, next_id, ingested, df_urgences>>

\* update_urgences_data once the feed is downloaded and processed:
\* _update_database is called.
StartCycle(v, missing) ==
  /\ OpenSession(v, missing)
  /\ UNCHANGED threads

\* process_urgences_data drops a row that fails a range validation.
DropRow(raw) ==
  /\ pc = "rows"
  /\ rows_done < MaxRows
  /\ ~RowKept(raw, absent)
  /\ rows_done' = rows_done + 1
  /\ UNCHANGED <<threads, regions, unique_etablissement_id, validator, normalized, connection, seeding, etablissements_info, etablissements,
                 urgences_etat_actuel, urgences_historique, next_id, db, pc,
                 variant, absent, date_extraction, etablissement, applied, ingested, df_urgences, backfills>>

\* One iteration of the loop of _update_database (scheduler.py).
\* fault: "find" - a search query raises; "create" - the flush of the new
\* facility raises; "archive" - the archival step raises; "none".
CoreRow(raw, fault) ==
  /\ pc = "rows"
  /\ variant = "core"
  /\ rows_done < MaxRows
  /\ RowKept(raw, absent)
  /\ LET row == Processed(raw, absent)
         hits == CoreMatches(db.fac, row)
         new(region_id) ==
           CoreNewEtablissement(next_id, row, etablissements_info, region_id)
         added(region_id) == [db EXCEPT !.fac = db.fac \cup {new(region_id)}]
     IN  \/ /\ fault = "find"
            /\ CoreQueries(row)
            /\ db' = Rollback
            /\ etablissement' = Result(rows_done + 1, row, NoFacility, "failed")
            /\ UNCHANGED <<next_id, applied>>
         \/ /\ fault \in {"none", "archive"}
            /\ hits # {}
            /\ \E f \in hits :
                 /\ fault = "archive" => CurrentRows(db, f.id) # {}
                 /\ db' \in ApplyMeasurement(Resolved(db, row, f.id), f.id,
                               CoreCurrentValues(f.id, row, date_extraction),
                               fault = "archive")
                 /\ etablissement' = Result(rows_done + 1, row, f.id, "matched")
                 /\ applied' = applied \cup {f.id}
            /\ UNCHANGED next_id
         \/ /\ fault \in {"none", "create"}
            /\ hits = {}
            /\ next_id <= MaxId
            /\ next_id' = next_id + 1
            /\ \E region_id \in find_region_id(regions, row.rss, row.region) :
               IF fault = "create" \/ ~FlushOk(added(region_id))
               THEN /\ db' = Rollback
                    /\ etablissement' = Result(rows_done + 1, row, NoFacility, "failed")
                    /\ UNCHANGED applied
               ELSE /\ db' \in ApplyMeasurement(
                                  Resolved(Flush(added(region_id)), row, next_id), next_id,
                                  CoreCurrentValues(next_id, row, date_extraction),
                                  FALSE)
                    /\ etablissement' = Result(rows_done + 1, row, next_id, "created")
                    /\ applied' = applied \cup {next_id}
  /\ rows_done' = rows_done + 1
  /\ UNCHANGED <<threads, regions, unique_etablissement_id, validator, normalized, connection, seeding, etablissements_info, etablissements,
                 urgences_etat_actuel, urgences_historique, pc, variant, absent,
                 date_extraction, ingested, df_urgences, backfills>>

\* One iteration of the loop of _update_database (data_updater.py): any
\* exception of the row is caught by the loop, which calls db.rollback().
\* fault: "raise" - a statement of the row raises; "none".
ScriptRow(raw, fault) ==
  /\ pc = "rows"
  /\ variant = "script"
  /\ rows_done < MaxRows
  /\ RowKept(raw, absent)
  /\ LET row == Processed(raw, absent)
         hits == ScriptMatches(db.fac, row)
         new(region_id) == ScriptNewEtablissement(next_id, row, region_id)
         added(region_id) == [db EXCEPT !.fac = db.fac \cup {new(region_id)}]
     IN  \/ /\ fault = "raise"
            /\ db' = Rollback
            /\ etablissement' = Result(rows_done + 1, row, NoFacility, "failed")
            /\ UNCHANGED <<next_id, applied>>
         \/ /\ fault = "none"
            /\ hits # {}
            /\ \E f \in hits :
                 /\ etablissement' = Result(rows_done + 1, row, f.id, "matched")
                 /\ IF ScriptTypeError(row)
                    THEN /\ db' = Rollback
                         /\ UNCHANGED applied
                    ELSE /\ db' \in ApplyMeasurement(Resolved(db, row, f.id), f.id,
                                       ScriptCurrentValues(f.id, row, date_extraction),
                                       FALSE)
                         /\ applied' = applied \cup {f.id}
            /\ UNCHANGED next_id
         \/ /\ fault = "none"
            /\ hits = {}
            /\ next_id <= MaxId
            /\ next_id' = next_id + 1
            /\ \E region_id \in ScriptRegionId(regions) :
               IF ~FlushOk(added(region_id))
               THEN /\ db' = Rollback
                    /\ etablissement' = Result(rows_done + 1, row, NoFacility, "failed")
                    /\ UNCHANGED applied
               ELSE /\ etablissement' = Result(rows_done + 1, row, next_id, "created")
                    /\ IF ScriptTypeError(row)
                       THEN /\ db' = Rollback
                            /\ UNCHANGED applied
                       ELSE /\ db' \in ApplyMeasurement(
                                          Resolved(Flush(added(region_id)), row, next_id), next_id,
                                          ScriptCurrentValues(next_id, row, date_extraction),
                                          FALSE)
                            /\ applied' = applied \cup {next_id}
  /\ rows_done' = rows_done + 1
  /\ UNCHANGED <<threads, regions, unique_etablissement_id, validator, normalized, connection, seeding, etablissements_info, etablissements,
                 urgences_etat_actuel, urgences_historique, pc, variant, absent,
                 date_extraction, ingested, df_urgences, backfills>>

\* db.commit() after the loop, then db.close(): the pending objects are
\* flushed; when the flush raises or the database is not available, the
\* except branch rolls everything back.
CloseSession(available) ==
  /\ pc = "rows"
  /\ IF available /\ FlushOk(db)
     THEN /\ etablissements' = db.fac
          /\ urgences_etat_actuel' = db.cur \o db.new_cur
          /\ urgences_historique' = db.hist \o db.new_hist
          /\ ingested' = ingested \cup db.resolved
     ELSE UNCHANGED <<etablissements, urgences_etat_actuel, urgences_historique, ingested>>
  /\ pc' = "idle"
  /\ db' = [fac |-> etablissements', cur |-> urgences_etat_actuel',
            hist |-> urgences_historique', new_cur |-> <<>>, new_hist |-> <<>>,
            resolved |-> {}]
  /\ variant' = "core"
  /\ absent' = "none"
  /\ rows_done' = 0
  /\ etablissement' = NoResult
  /\ applied' = {}
  /\ UNCHANGED <<regions, unique_etablissement_id, validator, normalized, connection, seeding, etablissements_info, next_id, date_extraction, df_urgences, backfills>>

\* The end of _update_database with the database available.
CommitCycle ==
  /\ CloseSession(TRUE)
  /\ UNCHANGED threads

\* update_urgences_data reads the feed and calls process_urgences_data
\* (by = "core"); by = "alt" is the replacement function of
\* fix_data_mapping_updated.py applied to the same feed.  When the function
\* raises, update_urgences_data logs the error and returns: no cycle runs.
ReadFeed(text, by) ==
  /\ pc = "idle"
  /\ df_urgences' = CoerceUrgencyRow(text, by)
  /\ UNCHANGED <<threads, regions, unique_etablissement_id, validator, normalized, connection, seeding, etablissements_info, etablissements,
                 urgences_etat_actuel, urgences_historique, next_id, db, pc,
                 variant, absent, date_extraction, rows_done, etablissement,
                 applied, ingested, backfills>>

\* The processed row of the feed read last, as a row of the loop of
\* _update_database (the facility is installation "a", without permit).
FeedRow ==
  [no_permis_installation |-> <<>>,
   nom_installation |-> <<"a">>,
   nom_etablissement |-> <<>>,
   civieres_fonctionnelles |-> df_urgences.row.civieres_fonctionnelles[1],
   civieres_occupees |-> df_urgences.row.civieres_occupees[1],
   dms_civiere |-> df_urgences.row.dms_civiere[1],
   rss |-> <<>>,
   region |-> <<>>]

\* PROVINCE_MAPPING lookup of fix_null_values (keys are abbreviations).
ProvinceMapping(province) ==
  IF province \in {"qc", "QC", "Qc", "quebec", "QUEBEC"} THEN "Québec" ELSE province

OrEmpty(text) == IF text = NullText THEN <<>> ELSE text

\* fix_null_values, part 1, for one facility row.
FixEtablissement(etab, catalog, now) ==
  IF etab.adresse = Null \/ etab.ville = Null \/ etab.type = Null \/ etab.source_id = Null
  THEN LET info == GetEtablissementInfo(catalog, OrEmpty(etab.nom_installation_normalise),
                                        OrEmpty(etab.nom_etablissement_normalise))
           province == IF etab.province = Null THEN "Québec" ELSE etab.province
       IN  [etab EXCEPT
              !.adresse = IF etab.adresse = Null THEN info.adresse ELSE etab.adresse,
              !.ville = IF etab.ville = Null THEN info.ville ELSE etab.ville,
              !.type = IF etab.type = Null THEN info.type ELSE etab.type,
              !.code_postal = IF etab.code_postal = Null THEN info.code_postal
                              ELSE etab.code_postal,
              !.province = ProvinceMapping(province),
              !.source_id = IF etab.source_id = Null THEN info.source_id ELSE etab.source_id,
              !.date_maj = now]
  ELSE etab

\* fix_null_values, part 2, for one current-state row.
FixUrgence(urg, now) ==
  IF urg.dms_civiere = NoneNum \/ urg.taux_occupation = NoneNum
  THEN [urg EXCEPT
          !.dms_civiere = IF urg.dms_civiere = NoneNum THEN <<0>> ELSE urg.dms_civiere,
          !.taux_occupation =
            IF urg.taux_occupation # NoneNum THEN urg.taux_occupation
            ELSE IF urg.civieres_fonctionnelles # NoneNum
                    /\ urg.civieres_fonctionnelles[1] > 0
                    /\ urg.civieres_occupees # NoneNum
                 THEN <<Taux(urg.civieres_occupees[1], urg.civieres_fonctionnelles[1])>>
                 ELSE <<0>>,
          !.date_maj = now]
  ELSE urg

\* fix_null_values, were _get_etablissement_info to keep the default values
\* it returns for an unknown facility as a new entry of the catalog.
FixNullValuesKeepingDefaults ==
  /\ pc = "idle"
  /\ Len(backfills) < MaxBackfills
  /\ backfills' = Append(backfills, "fix_null_values")
  /\ etablissements' =
       {FixEtablissement(e, etablissements_info, <<date_extraction, Len(backfills')>>) :
          e \in etablissements}
  /\ urgences_etat_actuel' =
       [i \in DOMAIN urgences_etat_actuel |->
          FixUrgence(urgences_etat_actuel[i], <<date_extraction, Len(backfills')>>)]
  /\ db' = [db EXCEPT !.fac = etablissements', !.cur = urgences_etat_actuel']
  /\ etablissements_info' =
       IF \E e \in etablissements :
            /\ FixEtablissement(e, etablissements_info, Now) # e
            /\ GetEtablissementInfo(etablissements_info,
                                    OrEmpty(e.nom_installation_normalise),
                                    OrEmpty(e.nom_etablissement_normalise)) = DefaultInfo
       THEN Append(etablissements_info, [nom |-> <<"b">>, info |-> DefaultInfo])
       ELSE etablissements_info
  /\ UNCHANGED <<threads, regions, unique_etablissement_id, validator, normalized, connection, seeding, urgences_historique,
                 next_id, pc, variant, absent, date_extraction, rows_done,
                 etablissement, applied, ingested, df_urgences>>

\* DataUpdater.fix_null_values: its own session, committed at the end.
FixNullValues ==
  /\ pc = "idle"
  /\ Len(backfills) < MaxBackfills
  /\ backfills' = Append(backfills, "fix_null_values")
  /\ etablissements' =
       {FixEtablissement(e, etablissements_info, <<date_extraction, Len(backfills')>>) :
          e \in etablissements}
  /\ urgences_etat_actuel' =
       [i \in DOMAIN urgences_etat_actuel |->
          FixUrgence(urgences_etat_actuel[i], <<date_extraction, Len(backfills')>>)]
  /\ db' = [db EXCEPT !.fac = etablissements', !.cur = urgences_etat_actuel']
  /\ UNCHANGED <<threads, regions, unique_etablissement_id, validator, normalized, connection, seeding, etablissements_info, urgences_historique,
                 next_id, pc, variant, absent, date_extraction, rows_done,
                 etablissement, applied, ingested, df_urgences>>

\* The first UPDATE of fix_null_values_in_tables (fix_tables.py), for one
\* facility row: an empty string counts as missing.
FixTablesEtablissement(etab, catalog, now) ==
  IF \/ etab.adresse \in {Null, ""} \/ etab.ville \in {Null, ""}
     \/ etab.type = Null \/ etab.province \in {Null, ""}
  THEN LET info == GetEtablissementInfo(catalog, OrEmpty(etab.nom_installation_normalise),
                                        OrEmpty(etab.nom_etablissement_normalise))
       IN  [etab EXCEPT
              !.adresse = IF etab.adresse \in {Null, ""} THEN info.adresse ELSE etab.adresse,
              !.ville = IF etab.ville \in {Null, ""} THEN info.ville ELSE etab.ville,
              !.type = IF etab.type \in {Null, ""} THEN info.type ELSE etab.type,
              !.code_postal = IF etab.code_postal = Null THEN info.code_postal
                              ELSE etab.code_postal,
              !.province = IF etab.province \in {Null, ""} THEN info.province
                           ELSE etab.province,
              !.date_maj = now]
  ELSE etab

\* The second UPDATE of fix_null_values_in_tables, for one current-state row.
FixTablesUrgence(urg, now) ==
  IF urg.dms_civiere = NoneNum \/ urg.taux_occupation = NoneNum
  THEN LET civieres_fonctionnelles == RowGet(urg.civieres_fonctionnelles, <<0>>)[1]
           civieres_occupees == RowGet(urg.civieres_occupees, <<0>>)[1]
           taux_occupation == IF civieres_fonctionnelles > 0
                              THEN Taux(civieres_occupees, civieres_fonctionnelles) ELSE 0
       IN  [urg EXCEPT
              !.dms_civiere = IF urg.dms_civiere = NoneNum THEN <<0>> ELSE urg.dms_civiere,
              !.taux_occupation = IF urg.taux_occupation = NoneNum
                                  THEN <<taux_occupation>> ELSE urg.taux_occupation,
              !.date_maj = now,
              !.statut_validation = "validé"]
  ELSE urg

\* fix_null_values_in_tables, were its second UPDATE to run on the history
\* table as well.
fix_null_values_in_every_table ==
  /\ pc = "idle"
  /\ Len(backfills) < MaxBackfills
  /\ backfills' = Append(backfills, "fix_null_values_in_tables")
  /\ etablissements' =
       {FixTablesEtablissement(e, etablissements_info, <<date_extraction, Len(backfills')>>) :
          e \in etablissements}
  /\ urgences_etat_actuel' =
       [i \in DOMAIN urgences_etat_actuel |->
          FixTablesUrgence(urgences_etat_actuel[i], <<date_extraction, Len(backfills')>>)]
  /\ urgences_historique' =
       [i \in DOMAIN urgences_historique |->
          FixTablesUrgence(urgences_historique[i], <<date_extraction, Len(backfills')>>)]
  /\ db' = [db EXCEPT !.fac = etablissements', !.cur = urgences_etat_actuel',
                      !.hist = urgences_historique']
  /\ UNCHANGED <<threads, regions, unique_etablissement_id, validator, normalized, connection, seeding, etablissements_info,
                 next_id, pc, variant, absent, date_extraction, rows_done,
                 etablissement, applied, ingested, df_urgences>>

\* fix_null_values_in_tables (fix_tables.py): its own session, committed
\* at the end.
fix_null_values_in_tables ==
  /\ pc = "idle"
  /\ Len(backfills) < MaxBackfills
  /\ backfills' = Append(backfills, "fix_null_values_in_tables")
  /\ etablissements' =
       {FixTablesEtablissement(e, etablissements_info, <<date_extraction, Len(backfills')>>) :
          e \in etablissements}
  /\ urgences_etat_actuel' =
       [i \in DOMAIN urgences_etat_actuel |->
          FixTablesUrgence(urgences_etat_actuel[i], <<date_extraction, Len(backfills')>>)]
  /\ db' = [db EXCEPT !.fac = etablissements', !.cur = urgences_etat_actuel']
  /\ UNCHANGED <<threads, regions, unique_etablissement_id, validator, normalized, connection, seeding, etablissements_info, urgences_historique,
                 next_id, pc, variant, absent, date_extraction, rows_done,
                 etablissement, applied, ingested, df_urgences>>

\* The row create_etablissement / update_etablissement write for a request.
ApiEtablissement(id, no_permis, nom_etablissement, nom_installation, province) ==
  [id |-> id,
   source_id |-> Null,
   no_permis_installation |-> no_permis,
   region_id |-> NoRegion,
   nom_etablissement |-> nom_etablissement,
   nom_etablissement_normalise |-> normalize_text(nom_etablissement, FALSE),
   nom_installation |-> nom_installation,
   nom_installation_normalise |->
     IF nom_installation # NullText /\ nom_installation # <<>>
     THEN normalize_text(nom_installation, FALSE) ELSE NullText,
   type |-> Null,
   adresse |-> Null,
   code_postal |-> Null,
   ville |-> Null,
   province |-> province,
   date_maj |-> Now]

\* POST /etablissements/
create_etablissement(no_permis, nom_etablissement, nom_installation, province) ==
  /\ pc = "idle"
  /\ next_id <= MaxId
  /\ next_id' = next_id + 1
  /\ etablissements' = etablissements \cup
       {ApiEtablissement(next_id, no_permis, nom_etablissement, nom_installation, province)}
  /\ db' = [db EXCEPT !.fac = etablissements']
  /\ UNCHANGED <<threads, regions, unique_etablissement_id, validator, normalized, connection, seeding, etablissements_info, urgences_etat_actuel,
                 urgences_historique, pc, variant, absent, date_extraction, rows_done,
                 etablissement, applied, ingested, df_urgences, backfills>>

\* PUT /etablissements/{etablissement_id}
update_etablissement(etablissement_id, no_permis, nom_etablissement, nom_installation, province) ==
  /\ pc = "idle"
  /\ \E e \in etablissements :
       /\ e.id = etablissement_id
       /\ etablissements' = (etablissements \ {e}) \cup
            {ApiEtablissement(e.id, no_permis, nom_etablissement, nom_installation, province)}
  /\ db' = [db EXCEPT !.fac = etablissements']
  /\ UNCHANGED <<threads, regions, unique_etablissement_id, validator, normalized, connection, seeding, etablissements_info, urgences_etat_actuel,
                 urgences_historique, next_id, pc, variant, absent, date_extraction,
                 rows_done, etablissement, applied, ingested, df_urgences, backfills>>

\* ------------------------------------------------- the scheduler process
\* The objects of the utilities: the validator, the text normalization and
\* the wait for the database.
tools == <<validator, normalized, connection, seeding>>

\* Every variable of the database and of the sequential cycle.
tables == <<regions, unique_etablissement_id, etablissements_info, etablissements,
            urgences_etat_actuel, urgences_historique, next_id, db, pc, variant,
            absent, date_extraction, rows_done, etablissement, applied, ingested,
            df_urgences, backfills>>

\* update_urgences_data when it stops on a failed download of either file.
DownloadedBoth(urgences, details) == urgences /\ details

\* The two download_file calls of update_urgences_data: TRUE iff the
\* function goes on to read the feed (only the feed itself is required).
Downloaded(urgences, details) == urgences

\* update_urgences_data of updater v from its first statement to the call
\* of _update_database.  setup: what ensure_database_setup returns
\* (data_updater.py only); urgences, details: what download_file returns
\* for the feed and for the detail feed (a call that is not made has not
\* failed).
update_urgences_data(v, setup, urgences, details) ==
  /\ pc = "idle"
  /\ threads.download.n < MaxCycles
  /\ v = "core" => setup
  /\ ~setup => urgences
  /\ ~urgences => details
  /\ threads' = [threads EXCEPT !.download =
       [n |-> threads.download.n + 1, by |-> v, setup |-> setup,
        urgences |-> urgences, details |-> details,
        committed |-> FALSE, report |-> "none"]]
  /\ IF setup /\ Downloaded(urgences, details)
     THEN OpenSession(v, "none")
     ELSE UNCHANGED <<tables, tools>>

\* What update_urgences_data tells its caller when _update_database has
\* returned: _update_database catches the exception of a failed commit
\* itself, so the call logs its success and returns normally either way.
Report(committed) == "success"

\* _update_database of the call in progress ends (commit, or rollback when
\* the database is not available or the flush fails) and
\* update_urgences_data returns.
update_urgences_data_returns(available) ==
  /\ threads.download.n > 0
  /\ threads.download.report = "none"
  /\ CloseSession(available)
  /\ threads' = [threads EXCEPT
       !.download.committed = available /\ FlushOk(db),
       !.download.report = Report(available /\ FlushOk(db))]

\* ------------------------------------------------- the validator object
\* self.validator.validate_numeric_range(df, column, min_val, max_val) on
\* the DataValidator of the process: the anomalies it logs are appended to
\* self.anomalies.
ValidateNumericRange(cells, has_column, range) ==
  /\ validator.calls < MaxCycles
  /\ LET returned == validate_numeric_range(DataFrame(cells), has_column,
                                            range.min_val, range.max_val)
     IN  validator' =
           [calls |-> validator.calls + 1,
            df |-> DataFrame(cells),
            has_column |-> has_column,
            min_val |-> range.min_val,
            max_val |-> range.max_val,
            result |-> returned.df,
            logged |-> Len(returned.anomalies),
            anomalies |-> validator.anomalies \o returned.anomalies]
  /\ UNCHANGED <<threads, tables, normalized, connection, seeding>>

\* normalize_text(text, remove_accents), and normalize_text applied to
\* what it returned.
NormalizeText(text, remove_accents) ==
  /\ normalized.calls = 0
  /\ normalized' =
       [text |-> text,
        remove_accents |-> remove_accents,
        once |-> normalize_text(text, remove_accents),
        twice |-> normalize_text(normalize_text(text, remove_accents), remove_accents),
        calls |-> normalized.calls + 1]
  /\ UNCHANGED <<threads, tables, validator, connection, seeding>>

\* start_scheduler after its call of fix_null_values: the jobs are added
\* and the BackgroundScheduler is started (its jobs run in worker
\* threads); __main__ then calls update_urgences_data itself.
start_scheduler ==
  /\ threads.pc["main"] = "init"
  /\ backfills # <<>>
  /\ threads' = [threads EXCEPT !.scheduler = "started", !.pc["main"] = "idle"]
  /\ UNCHANGED <<tables, tools>>

\* CronTrigger(minute=0) fires the job "update_urgences": a worker thread
\* calls update_urgences_data, unless an instance of the job is still
\* running (max_instances is 1).
FireUpdateUrgences ==
  /\ threads.scheduler = "started"
  /\ threads.pc["update_urgences"] = "idle"
  /\ threads.fired < MaxCycles
  /\ threads' = [threads EXCEPT !.pc["update_urgences"] = "read",
                                !.fired = threads.fired + 1]
  /\ UNCHANGED <<tables, tools>>

\* __main__ calls update_urgences_data in the main thread.
InitialUpdate ==
  /\ threads.scheduler = "started"
  /\ threads.pc["main"] = "idle"
  /\ threads' = [threads EXCEPT !.pc["main"] = "read"]
  /\ UNCHANGED <<tables, tools>>

\* update_urgences_data of thread t calls _update_database: the session
\* is opened and the loop over the rows begins.
UpdateDatabase(t) ==
  /\ threads.pc[t] = "read"
  /\ threads' = [threads EXCEPT !.pc[t] = "rows", !.rows_done[t] = 0]
  /\ UNCHANGED <<tables, tools>>

\* One iteration of the loop of _update_database in thread t.
UpdateDatabaseRow(t) ==
  /\ threads.pc[t] = "rows"
  /\ threads.rows_done[t] < MaxRows
  /\ threads' = [threads EXCEPT !.rows_done[t] = threads.rows_done[t] + 1]
  /\ UNCHANGED <<tables, tools>>

\* db.commit() and db.close() of _update_database in thread t; the main
\* thread then sleeps, the worker thread ends.
UpdateDatabaseCommit(t) ==
  /\ threads.pc[t] = "rows"
  /\ threads' = [threads EXCEPT !.pc[t] = IF t = "main" THEN "sleep" ELSE "idle",
                                !.rows_done[t] = 0]
  /\ UNCHANGED <<tables, tools>>

\* The current-state rows fix_null_values selects (a NULL in one of the
\* columns of its filter), by position in the table.
UrgencesAvecNull ==
  {i \in DOMAIN urgences_etat_actuel :
     FixUrgence(urgences_etat_actuel[i], Now) # urgences_etat_actuel[i]}

\* The facility rows fix_null_values selects.
EtablissementsAvecNull ==
  {e \in etablissements : FixEtablissement(e, etablissements_info, Now) # e}

\* The current-state rows the session of the running cycle has modified
\* and not committed: loaded rows whose attributes changed.
CycleDirtyUrgences ==
  IF pc # "rows" THEN {}
  ELSE {i \in DOMAIN urgences_etat_actuel :
          i \in DOMAIN db.cur /\ db.cur[i] # urgences_etat_actuel[i]}

\* CronTrigger(hour=0, minute=0) fires the job "fix_null_values" in a
\* worker thread of the BackgroundScheduler: the job opens its own session,
\* loads the rows with a NULL and assigns their attributes; nothing is
\* flushed before its commit.
FireFixNullValues ==
  /\ threads.scheduler = "started"
  /\ threads.fix_null_values.pc = "idle"
  /\ Len(backfills) < MaxBackfills
  /\ backfills' = Append(backfills, "fix_null_values")
  /\ threads' = [threads EXCEPT !.fix_null_values =
       [pc |-> "loaded",
        etablissements |->
          {FixEtablissement(e, etablissements_info, <<date_extraction, Len(backfills')>>) :
             e \in EtablissementsAvecNull},
        urgences |->
          [i \in UrgencesAvecNull |->
             [before |-> urgences_etat_actuel[i],
              after |-> FixUrgence(urgences_etat_actuel[i],
                                   <<date_extraction, Len(backfills')>>)]]]]
  /\ UNCHANGED <<regions, unique_etablissement_id, validator, normalized, connection, seeding, etablissements_info, etablissements,
                 urgences_etat_actuel, urgences_historique, next_id, db, pc, variant,
                 absent, date_extraction, rows_done, etablissement, applied, ingested,
                 df_urgences>>

\* The UPDATE the commit of fix_null_values sends for a loaded
\* current-state row: only the attributes the job assigned are written
\* onto the row the table holds by then.
FixNullValuesUpdate(row, loaded) ==
  [row EXCEPT
     !.dms_civiere = IF loaded.before.dms_civiere # loaded.after.dms_civiere
                     THEN loaded.after.dms_civiere ELSE @,
     !.taux_occupation = IF loaded.before.taux_occupation # loaded.after.taux_occupation
                         THEN loaded.after.taux_occupation ELSE @,
     !.date_maj = loaded.after.date_maj]

\* db.commit() and db.close() of the job "fix_null_values".  The session
\* of a cycle that is running keeps the rows it has modified and reads the
\* others again.
FixNullValuesCommit ==
  /\ threads.fix_null_values.pc = "loaded"
  /\ LET job == threads.fix_null_values
         fixed(e) == {x \in job.etablissements : x.id = e.id}
         etab(e) == IF fixed(e) = {} THEN e ELSE CHOOSE x \in fixed(e) : TRUE
     IN  /\ etablissements' = {etab(e) : e \in etablissements}
         /\ urgences_etat_actuel' =
              [i \in DOMAIN urgences_etat_actuel |->
                 IF i \in DOMAIN job.urgences
                 THEN FixNullValuesUpdate(urgences_etat_actuel[i], job.urgences[i])
                 ELSE urgences_etat_actuel[i]]
         /\ db' = [db EXCEPT
                     !.fac = {etab(e) : e \in db.fac},
                     !.cur = [i \in DOMAIN db.cur |->
                                IF i \in DOMAIN urgences_etat_actuel
                                   /\ db.cur[i] = urgences_etat_actuel[i]
                                THEN urgences_etat_actuel'[i] ELSE db.cur[i]]]
  /\ threads' = [threads EXCEPT !.fix_null_values =
                   [pc |-> "idle", etablissements |-> {}, urgences |-> <<>>]]
  /\ UNCHANGED <<regions, unique_etablissement_id, validator, normalized, connection, seeding, etablissements_info, urgences_historique,
                 next_id, pc, variant, absent, date_extraction, rows_done,
                 etablissement, applied, ingested, df_urgences, backfills>>

\* update_urgences_data of scripts/data_updater.py calls
\* ensure_database_setup, which calls wait_for_database.
EnsureDatabaseSetup ==
  /\ pc = "idle"
  /\ threads.download.n < MaxCycles
  /\ connection.pc # "waiting"
  /\ connection.pc = "returned" => threads.download.n > connection.before
  /\ connection' = [pc |-> "waiting", attempts |-> <<>>, result |-> "none",
                    before |-> threads.download.n]
  /\ UNCHANGED <<threads, tables, validator, normalized, seeding>>

\* A connection attempt of the loop of wait_for_database.
Connect(outcome) ==
  /\ connection.pc = "waiting"
  /\ connection' = wait_for_database(connection, outcome, MaxRetries)
  /\ UNCHANGED <<threads, tables, validator, normalized, seeding>>

\* wait_for_database has returned: ensure_database_setup returns False
\* when it returned False (and may fail or succeed otherwise), and
\* update_urgences_data goes on with its result.
ScriptUpdate(setup, urgences, details) ==
  /\ connection.pc = "returned"
  /\ threads.download.n = connection.before
  /\ connection.result = "False" => ~setup
  /\ update_urgences_data("script", setup, urgences, details)

\* A run of a region initialiser, none running at the same time.
InitialiseRegions(by) ==
  /\ pc = "idle"
  /\ Len(seeding.runs) < MaxCycles
  /\ regions' = IF by \in PerCode THEN init_regions(regions)
                ELSE initialize_regions(regions, by = "create_tables.initialize_regions")
  /\ seeding' = [seeding EXCEPT !.before = regions, !.runs = Append(@, by)]
  /\ UNCHANGED <<threads, unique_etablissement_id, validator, normalized, connection,
                 etablissements_info, etablissements, urgences_etat_actuel,
                 urgences_historique, next_id, db, pc, variant, absent, date_extraction,
                 rows_done, etablissement, applied, ingested, df_urgences, backfills>>

\* ------------------------------------------------------- specifications
\* Feed rows of the archival specification: two facilities, fixed counts.
ArchiveRows ==
  {r \in RawRows :
     /\ r.civieres_occupees = 1
     /\ r.rss = <<>> /\ r.region = <<>>
     /\ r.no_permis_installation = <<>>
     /\ <<r.nom_installation, r.nom_etablissement>> \in {<<<<"a">>, <<>>>>, <<<<>>, <<"b">>>>}
     /\ \/ r.civieres_fonctionnelles = 2
        \/ r.civieres_fonctionnelles < 0 /\ r.nom_installation = <<"a">>}

\* Feed rows of the resolution specification: four row identities (name
\* only, permit and name, permit only, name of the establishment only),
\* fixed counts.
ResolveKeys ==
  {<<<<>>, <<"a">>, <<>>>>,
   <<<<"P">>, <<"a">>, <<>>>>,
   <<<<"P">>, <<>>, <<>>>>,
   <<<<>>, <<>>, <<"b">>>>}

ResolveRows ==
  {r \in RawRows :
     /\ RowKey(r) \in ResolveKeys
     /\ r.rss = <<>> /\ r.region = <<>>
     /\ r.civieres_occupees = 1
     /\ \/ r.civieres_fonctionnelles = 2
        \/ r.civieres_fonctionnelles < 0 /\ r.nom_installation = <<"a">>}

\* Feed rows of the measurement specification: one facility, every count.
MeasureRows ==
  {r \in RawRows :
     /\ r.no_permis_installation = <<>>
     /\ r.nom_installation = <<"É", "-", "a">>
     /\ r.nom_etablissement = <<>>
     /\ r.rss = <<>> /\ r.region = <<>>}

Cycle(rows, absents, core_faults, script_faults) ==
  \/ \E v \in {"core", "script"}, missing \in absents : StartCycle(v, missing)
  \/ \E raw \in rows : DropRow(raw)
  \/ \E raw \in rows, fault \in core_faults : CoreRow(raw, fault)
  \/ \E raw \in rows, fault \in script_faults : ScriptRow(raw, fault)
  \/ CommitCycle

\* Ingestion cycles of both updaters with failing steps, one backfill run
\* after a cycle and the administrative facility endpoints.
Next ==
  \/ Cycle(ArchiveRows, {"none"}, {"none", "find", "create", "archive"}, {"none", "raise"})
  \/ backfills = <<>> /\ FixNullValues
  \/ \E nom_installation \in {<<"É", "-", "a">>, NullText} :
       create_etablissement(NullText, <<"b">>, nom_installation, Null)
  \/ \E id \in 1..MaxId : update_etablissement(id, NullText, <<"b">>, <<"É", "-", "a">>, Null)

\* Either schema (models.py, create_tables.py) and a loaded reference catalog.
InitArchive == Init /\ regions = QuebecRegions /\ etablissements_info # <<>>

Spec == InitArchive /\ [][Next]_vars

\* Ingestion cycles of both updaters over the row identities.
NextResolve ==
  Cycle(ResolveRows, {"none"}, {"none", "find", "create"}, {"none", "raise"})

\* The schema of models.py and no reference catalog.
InitResolve == Init /\ regions = QuebecRegions /\ unique_etablissement_id /\ etablissements_info = <<>>

SpecResolve == InitResolve /\ [][NextResolve]_vars

\* Feed rows of the permit specification: the row identities that carry a
\* permit number, and the name they share.
PermitRows ==
  {r \in ResolveRows :
     /\ r.civieres_fonctionnelles = 2
     /\ RowKey(r) # <<<<>>, <<>>, <<"b">>>>}

\* Scheduler cycles over the rows with a permit number, and the
\* administrative requests about a permit number that a facility carries:
\* a second facility is created with the number, or the number is taken
\* from the facility.
NextPermit ==
  \/ StartCycle("core", "none")
  \/ \E raw \in PermitRows, fault \in {"none", "find"} : CoreRow(raw, fault)
  \/ CommitCycle
  \/ \E e \in etablissements :
       /\ e.no_permis_installation = <<"P">>
       /\ create_etablissement(<<"P">>, <<"b">>, NullText, Null)
  \/ \E e \in etablissements :
       /\ e.no_permis_installation = <<"P">>
       /\ update_etablissement(e.id, NullText, <<"b">>, NullText, Null)

SpecPermit == InitResolve /\ [][NextPermit]_vars

\* Ingestion cycles over every count and feed layout, and the backfill.
NextFields ==
  \/ Cycle(MeasureRows, AbsentChoices, {"none", "find"}, {"none", "raise"})
  \/ FixNullValues

\* The schema of models.py and a loaded reference catalog.
InitFields == Init /\ regions = QuebecRegions /\ unique_etablissement_id /\ etablissements_info # <<>>

SpecFields == InitFields /\ [][NextFields]_vars

\* Scheduler cycles over a feed read as text: the feed is read and
\* processed, and a cycle runs over its row when process_urgences_data
\* returned it.
NextCoerce ==
  \/ \E text \in TextRows, by \in {"core", "alt"} : ReadFeed(text, by)
  \/ /\ df_urgences.by = "core"
     /\ df_urgences.outcome = "kept"
     /\ \/ StartCycle("core", "none")
        \/ CoreRow(FeedRow, "none")
  \/ CommitCycle

SpecCoerce == InitResolve /\ [][NextCoerce]_vars

\* Feed rows of the snapshot specification: one facility, both occupied
\* counts, and a row the range validation drops.
SnapshotRows ==
  {r \in RawRows :
     /\ r.no_permis_installation = <<>>
     /\ r.nom_installation = <<"a">>
     /\ r.nom_etablissement = <<>>
     /\ r.rss = <<>> /\ r.region = <<>>}

\* The feed a cycle downloads: the occupied count alternates from one
\* extraction to the next.
SnapshotFeed(date) ==
  {r \in SnapshotRows : r.civieres_occupees = (IF date % 2 = 1 THEN 1 ELSE 3)}

\* Ingestion cycles of both updaters over one facility, with failing
\* archival steps and failing rows.
NextSnapshot ==
  Cycle(SnapshotFeed(date_extraction), {"none"}, {"none", "archive"}, {"none", "raise"})

\* The schema of models.py and no reference catalog.
InitSnapshot == Init /\ regions = QuebecRegions /\ unique_etablissement_id /\ etablissements_info = <<>>

SpecSnapshot == InitSnapshot /\ [][NextSnapshot]_vars

\* Feed of the history specification: the rows of the snapshot feed that
\* have no functional stretcher (the script stores a null occupancy for
\* them, which the backfill jobs fill afterwards) or are dropped.
HistoryFeed(date) ==
  {r \in SnapshotFeed(date) : r.civieres_fonctionnelles <= 0}

\* Ingestion cycles of both updaters over one facility, and both backfill
\* jobs between cycles.
NextHistory ==
  \/ Cycle(HistoryFeed(date_extraction), {"none"}, {"none", "archive"}, {"none", "raise"})
  \/ FixNullValues
  \/ fix_null_values_in_tables

SpecHistory == InitSnapshot /\ [][NextHistory]_vars

\* Feed rows of the region specification: one new facility, every RSS and
\* Region cell.
RegionRows ==
  {r \in RawRows :
     /\ r.no_permis_installation = <<>>
     /\ r.nom_installation = <<"a">>
     /\ r.nom_etablissement = <<>>
     /\ r.civieres_fonctionnelles = 2
     /\ r.civieres_occupees = 1}

\* Ingestion cycles of both updaters that create the facility of the row.
NextRegion ==
  \/ \E v \in {"core", "script"} : StartCycle(v, "none")
  \/ \E raw \in RegionRows : CoreRow(raw, "none")
  \/ \E raw \in RegionRows : ScriptRow(raw, "none")
  \/ CommitCycle

\* Any regions table, the schema of models.py and no reference catalog.
InitRegion == Init /\ unique_etablissement_id /\ etablissements_info = <<>>

SpecRegion == InitRegion /\ [][NextRegion]_vars

\* Feed rows of the backfill specification: one facility, which the
\* reference catalog knows, with fixed counts.
BackfillRows ==
  {r \in MeasureRows : r.civieres_fonctionnelles = 2 /\ r.civieres_occupees = 1}

\* Ingestion cycles of both updaters over feeds with and without the
\* column of functional stretchers, both backfill jobs, and the request
\* that creates a facility with the province "qc" before the jobs run.
NextBackfill ==
  \/ \E v \in {"core", "script"}, missing \in {"none", "civieres_fonctionnelles"} :
       StartCycle(v, missing)
  \/ \E raw \in BackfillRows : CoreRow(raw, "none")
  \/ \E raw \in BackfillRows : ScriptRow(raw, "none")
  \/ CommitCycle
  \/ FixNullValues
  \/ fix_null_values_in_tables
  \/ backfills = <<>> /\ create_etablissement(NullText, <<"b">>, NullText, "qc")

SpecBackfill == InitFields /\ [][NextBackfill]_vars

\* The scheduler process run as a program: start_scheduler (with its
\* backfill), the initial update of the main thread, the hourly job and
\* the daily backfill job.
NextScheduler ==
  \/ threads.pc["main"] = "init" /\ backfills = <<>> /\ FixNullValues
  \/ start_scheduler
  \/ InitialUpdate
  \/ FireUpdateUrgences
  \/ \E t \in Threads : UpdateDatabase(t)
  \/ \E t \in Threads : UpdateDatabaseRow(t)
  \/ \E t \in Threads : UpdateDatabaseCommit(t)
  \/ threads.scheduler = "started" /\ FixNullValues

SpecScheduler == InitArchive /\ [][NextScheduler]_vars

\* Feed rows of the jobs specification: one facility, with and without
\* functional stretchers.
JobsRows ==
  {r \in SnapshotRows : r.civieres_fonctionnelles >= 0}

\* The scheduler process with its two jobs (the cycle of the core is the
\* run of the job "update_urgences", the backfill job runs in its own
\* worker thread), and scripts/data_updater.py run on the same database.
NextJobs ==
  \/ threads.pc["main"] = "init" /\ backfills = <<>> /\ FixNullValues
  \/ start_scheduler
  \/ \E v \in {"core", "script"} :
       (v = "core" => threads.scheduler = "started") /\ StartCycle(v, "none")
  \/ \E raw \in JobsRows : CoreRow(raw, "none")
  \/ \E raw \in JobsRows : ScriptRow(raw, "none")
  \/ CommitCycle
  \/ FireFixNullValues
  \/ FixNullValuesCommit

SpecJobs == InitSnapshot /\ [][NextJobs]_vars

\* Calls of update_urgences_data of both updaters with failing downloads,
\* and the cycles they start over one facility.
NextDownload ==
  \/ \E v \in {"core", "script"}, setup, urgences, details \in BOOLEAN :
       update_urgences_data(v, setup, urgences, details)
  \/ \E raw \in SnapshotFeed(date_extraction) : DropRow(raw)
  \/ \E raw \in SnapshotFeed(date_extraction) : CoreRow(raw, "none")
  \/ \E raw \in SnapshotFeed(date_extraction) : ScriptRow(raw, "none")
  \/ CommitCycle

SpecDownload == InitSnapshot /\ [][NextDownload]_vars

\* Calls of update_urgences_data of both updaters over one facility, the
\* database being available or not when the cycle commits.
NextReport ==
  \/ \E v \in {"core", "script"} : update_urgences_data(v, TRUE, TRUE, TRUE)
  \/ \E raw \in SnapshotFeed(date_extraction) : DropRow(raw)
  \/ \E raw \in SnapshotFeed(date_extraction), fault \in {"none", "find"} : CoreRow(raw, fault)
  \/ \E raw \in SnapshotFeed(date_extraction), fault \in {"none", "raise"} : ScriptRow(raw, fault)
  \/ \E available \in BOOLEAN : update_urgences_data_returns(available)

SpecReport == InitSnapshot /\ [][NextReport]_vars

\* The schema of models.py, the reference catalog loaded from the ODHF
\* file or empty (the file is missing or empty).
InitCatalog == Init /\ regions = QuebecRegions /\ unique_etablissement_id

\* Feed rows of the catalog specification: a facility the ODHF catalog
\* knows and one it does not know, with fixed counts.
CatalogRows ==
  {r \in RawRows :
     /\ r.civieres_fonctionnelles = 2 /\ r.civieres_occupees = 1
     /\ r.rss = <<>> /\ r.region = <<>>
     /\ r.no_permis_installation = <<>>
     /\ <<r.nom_installation, r.nom_etablissement>> \in
          {<<<<"É", "-", "a">>, <<>>>>, <<<<>>, <<"b">>>>}}

\* The feed of an extraction names one of the two facilities.
CatalogFeed(date) ==
  {r \in CatalogRows : (r.nom_etablissement = <<>>) <=> (date % 2 = 1)}

\* The pipeline with either catalog: ingestion cycles of both updaters and
\* both backfill jobs.
NextCatalog ==
  \/ \E v \in {"core", "script"} : StartCycle(v, "none")
  \/ \E raw \in CatalogFeed(date_extraction) : CoreRow(raw, "none")
  \/ \E raw \in CatalogFeed(date_extraction) : ScriptRow(raw, "none")
  \/ CommitCycle
  \/ backfills = <<>> /\ FixNullValues
  \/ fix_null_values_in_tables

SpecCatalog == InitCatalog /\ [][NextCatalog]_vars

\* Range validations of batches of every content, with and without the
\* validated column.
NextValidate ==
  \E cells \in Batches, has_column \in BOOLEAN, range \in Ranges :
    ValidateNumericRange(cells, has_column, range)

SpecValidate == InitSnapshot /\ [][NextValidate]_vars

\* Normalizations of every text, with both settings of remove_accents.
NextNormalize ==
  \E text \in Texts, remove_accents \in BOOLEAN : NormalizeText(text, remove_accents)

SpecNormalize == InitSnapshot /\ [][NextNormalize]_vars

\* Feed rows of the count specification: one facility, rows that pass the
\* validations.
CountRows ==
  {r \in SnapshotRows : r.civieres_fonctionnelles >= 0}

\* Cycles of both updaters whose feed holds exactly one row, no step
\* failing.
NextCount ==
  \/ \E v \in {"core", "script"} : StartCycle(v, "none")
  \/ rows_done = 0 /\ \E raw \in CountRows : CoreRow(raw, "none")
  \/ rows_done = 0 /\ \E raw \in CountRows : ScriptRow(raw, "none")
  \/ rows_done = 1 /\ CommitCycle

\* Either schema, an empty store and no reference catalog.
InitCount == Init /\ regions = QuebecRegions /\ etablissements_info = <<>>

SpecCount == InitCount /\ [][NextCount]_vars

\* scripts/data_updater.py run as a program: every call of
\* update_urgences_data waits for the database first; the cycles hold one
\* row.
NextWait ==
  \/ EnsureDatabaseSetup
  \/ \E outcome \in {"ok", "OperationalError", "ProgrammingError"} : Connect(outcome)
  \/ \E setup, urgences, details \in BOOLEAN : ScriptUpdate(setup, urgences, details)
  \/ rows_done = 0 /\ \E raw \in CountRows : ScriptRow(raw, "none")
  \/ CommitCycle

\* The loop of wait_for_database always goes on to its next attempt (the
\* sleep between two attempts ends).
SpecWait ==
  InitSnapshot /\ [][NextWait]_vars
    /\ WF_vars(\E outcome \in {"ok", "OperationalError", "ProgrammingError"} : Connect(outcome))

\* Runs of the region initialisers, one after the other.
NextSeed == \E by \in Initialisers : InitialiseRegions(by)

\* Any starting regions table.
InitSeed ==
  regions \in SUBSET StartingRows /\ EmptyStore /\ unique_etablissement_id /\ etablissements_info = <<>>

SpecSeed == InitSeed /\ [][NextSeed]_vars

\* ------------------------------------------------------------ properties
\* C1: whenever the committed current-state row of a facility is
\* overwritten by an ingestion cycle, a history row holding its
\* pre-overwrite values is committed with it - also when the archival
\* step of that row failed.
C1_OverwriteIsArchived ==
  [][pc = "rows" =>
       \A i \in DOMAIN urgences_etat_actuel :
         (i \in DOMAIN urgences_etat_actuel'
            /\ urgences_etat_actuel'[i] # urgences_etat_actuel[i])
         => \E k \in (Len(urgences_historique) + 1)..Len(urgences_historique') :
              urgences_historique'[k] = urgences_etat_actuel[i]]_vars

\* C2: when a cycle commits, the writes of every row that was processed
\* without error are persisted, whatever happened to the other rows: each
\* facility such a row was applied to has a current-state row of this cycle.
C2_AppliedRowsPersist ==
  [][(pc = "rows" /\ pc' = "idle" /\ FlushOk(db)) =>
       \A id \in applied :
         \E i \in DOMAIN urgences_etat_actuel' :
           /\ urgences_etat_actuel'[i].etablissement_id = id
           /\ urgences_etat_actuel'[i].date_extraction = date_extraction]_vars

\* C3: one cycle adds at most one history row per facility, and adds one
\* only for a facility that had a current-state row before the cycle.
C3_HistoryGrowsByOne ==
  [][\A e \in etablissements' :
       LET before == {k \in DOMAIN urgences_historique :
                        urgences_historique[k].etablissement_id = e.id}
           after == {k \in DOMAIN urgences_historique' :
                       urgences_historique'[k].etablissement_id = e.id}
       IN  /\ Cardinality(after) <= Cardinality(before) + 1
           /\ Cardinality(after) > Cardinality(before)
              => \E i \in DOMAIN urgences_etat_actuel :
                   urgences_etat_actuel[i].etablissement_id = e.id]_vars

\* C4: the committed current-state table holds at most one row per facility.
C4_OneCurrentStatePerFacility ==
  \A i, j \in DOMAIN urgences_etat_actuel :
    urgences_etat_actuel[i].etablissement_id = urgences_etat_actuel[j].etablissement_id
    => i = j

\* C5: resolving a row identical to one ingested by a committed cycle
\* creates no facility.
C5_NoDuplicateFacility ==
  etablissement.state = "created" =>
    \A e \in ingested : e.key # etablissement.key

\* C6 (as stated): once a row with a non-blank permit number was resolved
\* by the scheduler to facility f and committed, resolving an identical row
\* again returns f and creates no facility.
C6_PermitRoundTrip ==
  (variant = "core" /\ etablissement.state \in {"matched", "created"}
     /\ ~PermitBlank(etablissement.key[1]))
  => \A e \in ingested :
       (e.key = etablissement.key /\ e.by = "core")
       => (etablissement.id = e.id /\ etablissement.state = "matched")

\* C6 (amended): once a row with a non-blank permit number P was resolved
\* to facility f and committed, and f carries permit P and is the only
\* facility carrying it, the scheduler resolves an identical row to f again
\* and creates no facility.
C6_PermitRoundTripCarried ==
  (variant = "core" /\ etablissement.state \in {"matched", "created"}
     /\ ~PermitBlank(etablissement.key[1]))
  => \A e \in ingested :
       (/\ e.key = etablissement.key
        /\ \E f \in etablissements :
             f.id = e.id /\ f.no_permis_installation = etablissement.key[1]
        /\ \A g \in etablissements :
             g.no_permis_installation = etablissement.key[1] => g.id = e.id)
       => (etablissement.id = e.id /\ etablissement.state = "matched")

\* C6 witness: in a later cycle the scheduler matched a row with a permit
\* to the facility that an identical, committed row was resolved to and
\* that alone carries the permit.
C6_Witness ==
  /\ variant = "core"
  /\ etablissement.state = "matched"
  /\ ~PermitBlank(etablissement.key[1])
  /\ \E e \in ingested :
       /\ e.key = etablissement.key
       /\ e.id = etablissement.id
       /\ \E f \in etablissements :
            f.id = e.id /\ f.no_permis_installation = etablissement.key[1]
       /\ \A g \in etablissements :
            g.no_permis_installation = etablissement.key[1] => g.id = e.id

\* C7: the scheduler's resolution of a row always yields a facility: it
\* never ends with no result.
C7_ResolveYieldsFacility ==
  variant = "core" => etablissement.state # "failed"

\* C8: a resolution that yields a facility follows the ordered cascade:
\* permit match if the permit is non-blank and some facility carries it,
\* else a facility whose normalized installation name contains the row's
\* non-empty installation key, else the same with the establishment name,
\* and a creation only when all three find nothing.
C8_OrderedCascade ==
  [][(pc = "rows" /\ etablissement'.n = rows_done + 1
        /\ etablissement'.state \in {"matched", "created"}) =>
       LET key == etablissement'.key
           inst_key == normalize_text(fix_text_encoding(key[2]), TRUE)
           etab_key == normalize_text(fix_text_encoding(key[3]), TRUE)
           by_permit == IF PermitBlank(key[1]) THEN {}
                        ELSE {f \in db.fac : f.no_permis_installation = key[1]}
           by_inst == IF inst_key = <<>> THEN {}
                      ELSE {f \in db.fac : /\ f.nom_installation_normalise # NullText
                                           /\ IsSubstring(inst_key, f.nom_installation_normalise)}
           by_etab == IF etab_key = <<>> THEN {}
                      ELSE {f \in db.fac : /\ f.nom_etablissement_normalise # NullText
                                           /\ IsSubstring(etab_key, f.nom_etablissement_normalise)}
           step == IF by_permit # {} THEN by_permit
                   ELSE IF by_inst # {} THEN by_inst ELSE by_etab
       IN  IF step = {} THEN etablissement'.state = "created"
           ELSE /\ etablissement'.state = "matched"
                /\ \E f \in step : f.id = etablissement'.id]_vars

\* C9: the normalized names of every facility are the ingestion
\* normalization (lower-case, accents folded, punctuation to spaces,
\* spaces collapsed) of its display names (an absent name has an absent or
\* empty normalized name).
C9_NormalizedNamesDerivable ==
  \A e \in etablissements :
    /\ e.nom_etablissement_normalise = normalize_text(e.nom_etablissement, TRUE)
    /\ OrEmpty(e.nom_installation_normalise)
         = normalize_text(OrEmpty(e.nom_installation), TRUE)

\* C10: every current-state row carries an occupancy that is a number,
\* never negative, equal to occupied * 100 / functional when functional is
\* positive and to 0 when functional is 0 or an operand is absent.
C10_OccupancyDefined ==
  \A i \in DOMAIN urgences_etat_actuel :
    LET r == urgences_etat_actuel[i]
    IN  /\ r.taux_occupation # NoneNum
        /\ r.taux_occupation[1] >= 0
        /\ IF /\ r.civieres_fonctionnelles # NoneNum
              /\ r.civieres_occupees # NoneNum
              /\ r.civieres_fonctionnelles[1] > 0
           THEN r.taux_occupation[1] =
                  Taux(r.civieres_occupees[1], r.civieres_fonctionnelles[1])
           ELSE r.taux_occupation[1] = 0

\* C11: a feed row with functional "10" and occupied "7,5" ends, when its
\* cycle commits, with a current state whose occupied is 7.5, functional
\* is 10 and occupancy is 75.
C11_CommaDecimalCounts ==
  [][(/\ pc = "rows" /\ pc' = "idle" /\ FlushOk(db)
      /\ df_urgences.text.civieres_fonctionnelles = <<"1", "0">>
      /\ df_urgences.text.civieres_occupees = <<"7", ",", "5">>)
     => \A id \in applied :
          \E i \in DOMAIN urgences_etat_actuel' :
            LET r == urgences_etat_actuel'[i]
            IN  /\ r.etablissement_id = id
                /\ r.civieres_fonctionnelles = <<10>>
                /\ r.civieres_occupees # NoneNum
                /\ 2 * r.civieres_occupees[1] = 15
                /\ r.taux_occupation = <<75>>]_vars

\* C12: a feed whose duration is written "2:30" or "ab" is processed (the
\* row is kept, the cycle is not abandoned), and its cycle stores 2.5 for
\* "2:30" and 0 for the unparsable text.
C12_DurationCoercion ==
  [][/\ (/\ df_urgences'.by = "core"
         /\ df_urgences'.text.dms_civiere \in {<<"2", ":", "3", "0">>, <<"a", "b">>})
        => df_urgences'.outcome = "kept"
     /\ (/\ pc = "rows" /\ pc' = "idle" /\ FlushOk(db)
         /\ df_urgences.text.dms_civiere \in {<<"2", ":", "3", "0">>, <<"a", "b">>})
        => \A id \in applied :
             \E i \in DOMAIN urgences_etat_actuel' :
               LET r == urgences_etat_actuel'[i]
               IN  /\ r.etablissement_id = id
                   /\ r.dms_civiere # NoneNum
                   /\ 2 * r.dms_civiere[1] =
                        (IF df_urgences.text.dms_civiere = <<"a", "b">> THEN 0 ELSE 5)]_vars

\* C13: an unparsable value of a count field (functional, occupied,
\* patients 24h) becomes 0 and the row is kept; no row that survives the
\* coercion and the range validations has a null count.
C13_UnparsableCountIsZero ==
  df_urgences.outcome \in {"kept", "dropped"} =>
    /\ \A f \in {"civieres_fonctionnelles", "civieres_occupees", "patients_24h"} :
         to_numeric(df_urgences.text[f]) = NoneNum
         => (df_urgences.row[f] = <<0>> /\ df_urgences.outcome = "kept")
    /\ df_urgences.outcome = "kept"
       => \A f \in {"civieres_fonctionnelles", "civieres_occupees", "patients_24h"} :
            df_urgences.row[f] # NoneNum

\* The history rows a session holds, flushed or pending.
AllHistorique(s) == s.hist \o s.new_hist

\* C14: every history record a row of a cycle inserts equals, field by
\* field, the current-state row of the same facility as it was just before
\* that row overwrote it; no other current-state row changes in the step.
C14_HistoryIsVerbatimCopy ==
  [][(pc = "rows" /\ pc' = "rows")
     => \A k \in DOMAIN AllHistorique(db') \ DOMAIN AllHistorique(db) :
          LET historique == AllHistorique(db')[k]
          IN  \E j \in DOMAIN db.cur :
                /\ db.cur[j].etablissement_id = historique.etablissement_id
                /\ historique.etablissement_id = etablissement'.id
                /\ \A f \in {"etablissement_id", "civieres_fonctionnelles",
                             "civieres_occupees", "dms_civiere", "taux_occupation",
                             "date_extraction", "date_maj", "statut_validation"} :
                     historique[f] = db.cur[j][f]
                /\ DOMAIN db'.cur = DOMAIN db.cur
                /\ db'.new_cur = db.new_cur
                /\ \A i \in DOMAIN db.cur \ {j} : db'.cur[i] = db.cur[i]]_vars

\* A committed history record of an earlier cycle next to the current
\* state that replaced it with another occupied count.
C14_Witness ==
  \E i \in DOMAIN urgences_historique, j \in DOMAIN urgences_etat_actuel :
    /\ urgences_historique[i].etablissement_id = urgences_etat_actuel[j].etablissement_id
    /\ urgences_historique[i].date_extraction < urgences_etat_actuel[j].date_extraction
    /\ urgences_historique[i].civieres_occupees # urgences_etat_actuel[j].civieres_occupees

C16_RegionCascade ==
  [][(pc = "rows" /\ etablissement' # etablissement /\ etablissement'.state = "created")
     => LET rss == etablissement'.rss
            region_name == etablissement'.region
            by_code == IF rss \in {<<>>, NullText} THEN {}
                       ELSE {r \in regions : r.rss = Strip(rss)}
            by_name == IF region_name \in {<<>>, NullText} THEN {}
                       ELSE {r \in regions :
                               IsSubstring(normalize_text(region_name, TRUE), r.nom_normalise)}
            default == {r \in regions : r.rss = <<"0", "6">>}
            expected == IF by_code # {} THEN {r.id : r \in by_code}
                        ELSE IF by_name # {} THEN {r.id : r \in by_name}
                        ELSE IF default # {} THEN {r.id : r \in default}
                        ELSE IF regions # {} THEN {r.id : r \in regions}
                        ELSE {NoRegion}
        IN  \A f \in db'.fac : f.id = etablissement'.id => f.region_id \in expected]_vars

\* C17: when a backfill job runs right after a run of the same job, with
\* no ingestion and no request in between, the second run changes no
\* field of a facility or of a current state (timestamps and status
\* included).
C17_BackfillIdempotent ==
  [][(/\ backfills # <<>>
      /\ Len(backfills') = Len(backfills) + 1
      /\ backfills'[Len(backfills')] = backfills[Len(backfills)])
     => /\ etablissements' = etablissements
        /\ urgences_etat_actuel' = urgences_etat_actuel]_vars

\* C18: a backfill run only fills: every data field of a facility or of a
\* current state that held a value (not null, not empty) before the run
\* holds the same value after it.
C18_BackfillOnlyFills ==
  [][Len(backfills') = Len(backfills) + 1
     => /\ \A e \in etablissements :
             \E fixed \in etablissements' :
               /\ fixed.id = e.id
               /\ \A f \in {"source_id", "type", "adresse", "code_postal", "ville", "province"} :
                    e[f] \notin {Null, ""} => fixed[f] = e[f]
               /\ \A f \in {"no_permis_installation", "nom_etablissement", "nom_installation",
                            "nom_etablissement_normalise", "nom_installation_normalise"} :
                    e[f] \notin {NullText, <<>>} => fixed[f] = e[f]
               /\ fixed.region_id = e.region_id
        /\ DOMAIN urgences_etat_actuel' = DOMAIN urgences_etat_actuel
        /\ \A i \in DOMAIN urgences_etat_actuel :
             /\ \A f \in {"civieres_fonctionnelles", "civieres_occupees", "dms_civiere",
                          "taux_occupation"} :
                  urgences_etat_actuel[i][f] # NoneNum
                  => urgences_etat_actuel'[i][f] = urgences_etat_actuel[i][f]
             /\ urgences_etat_actuel'[i].etablissement_id = urgences_etat_actuel[i].etablissement_id
             /\ urgences_etat_actuel'[i].date_extraction = urgences_etat_actuel[i].date_extraction
             /\ urgences_etat_actuel'[i].statut_validation = urgences_etat_actuel[i].statut_validation]_vars

\* C19: after a backfill run no current state has a null count, duration
\* or occupancy; an occupancy that was null is occupied / functional * 100
\* when both are present and functional > 0, else 0.
C19_BackfillLeavesNoNull ==
  [][Len(backfills') = Len(backfills) + 1
     => \A i \in DOMAIN urgences_etat_actuel' :
          LET before == urgences_etat_actuel[i]
              after == urgences_etat_actuel'[i]
          IN  /\ \A f \in {"civieres_fonctionnelles", "civieres_occupees", "dms_civiere",
                           "taux_occupation"} : after[f] # NoneNum
              /\ before.dms_civiere = NoneNum => after.dms_civiere = <<0>>
              /\ before.taux_occupation = NoneNum
                 => after.taux_occupation =
                      (IF /\ before.civieres_fonctionnelles # NoneNum
                          /\ before.civieres_occupees # NoneNum
                          /\ before.civieres_fonctionnelles[1] > 0
                       THEN <<Taux(before.civieres_occupees[1],
                                   before.civieres_fonctionnelles[1])>>
                       ELSE <<0>>)]_vars

\* C20: at any time at most one ingestion cycle is between its first row
\* and its commit, whether the hourly job or the initial update of the
\* main thread started it.
C20_CyclesNeverInterleave ==
  Cardinality({t \in Threads : threads.pc[t] = "rows"}) <= 1

\* C21: the backfill job and a cycle of the hourly ingestion job never
\* hold uncommitted writes to the same facility row or to the same
\* current-state row at the same time.
C21_BackfillNeverOverlapsCycle ==
  LET job == threads.fix_null_values
  IN  ~(/\ job.pc = "loaded"
        /\ pc = "rows"
        /\ variant = "core"
        /\ \/ CycleDirtyUrgences \cap DOMAIN job.urgences # {}
           \/ \E e \in db.fac \ etablissements, x \in job.etablissements : e.id = x.id)

\* C22: a call of update_urgences_data whose download of the feed fails
\* stops before any row is processed: it opens no cycle and leaves every
\* facility, current state and history record as it was; a call whose
\* download of the feed succeeds starts the cycle, whether the download of
\* the detail feed failed or not.
C22_FailedDownloadStopsCycle ==
  [][threads'.download.n # threads.download.n =>
       LET call == threads'.download
       IN  /\ ~call.urgences =>
                /\ pc' = "idle"
                /\ UNCHANGED <<etablissements, urgences_etat_actuel, urgences_historique,
                               db, date_extraction>>
           /\ (call.setup /\ call.urgences) => pc' = "rows"]_vars

\* A call that stopped on a failed download of the feed while the store
\* held the current state an earlier cycle committed.
C22_Witness ==
  /\ threads.download.n >= 2
  /\ ~threads.download.urgences
  /\ pc = "idle"
  /\ urgences_etat_actuel # <<>>
  /\ ingested # {}

\* C23: a call of update_urgences_data whose cycle was rolled back as a
\* whole (the database was not available at the commit, or the flush
\* failed) never reports success to its caller: it reports success only
\* when its transaction was committed.
C23_RolledBackCycleReportsFailure ==
  threads.download.report = "success" => threads.download.committed

\* The names a lookup in the reference catalog is made with.
LookupNames == {<<>>, <<"a">>, <<"b">>, <<"e", " ", "a">>}

\* C24: no step of the pipeline (cycle, facility resolution, backfill run,
\* request) adds, removes or changes an entry of the reference catalog, and
\* a lookup that finds an entry for given normalized names finds the same
\* entry after the step, and one that finds none still finds none.
C24_CatalogImmutable ==
  [][/\ etablissements_info' = etablissements_info
     /\ \A inst \in LookupNames, etab \in LookupNames :
          LET before == GetEtablissementInfo(etablissements_info, inst, etab)
              after == GetEtablissementInfo(etablissements_info', inst, etab)
          IN  /\ before # DefaultInfo => after = before
              /\ before = DefaultInfo => after = DefaultInfo]_vars

\* A loaded catalog after a cycle created a facility from one of its
\* entries and a backfill run filled another facility with the default
\* values.
C24_Witness ==
  /\ etablissements_info # <<>>
  /\ backfills # <<>>
  /\ \E e \in etablissements : e.source_id = OdhfInfo.source_id
  /\ \E e \in etablissements : e.source_id = DefaultInfo.source_id

\* C25: with an empty reference catalog, every facility a cycle creates
\* and commits carries the default enrichment values: type "Hôpital",
\* address and city "À compléter", province "Québec".
C25_EmptyCatalogGivesDefaults ==
  [][etablissements_info = <<>> =>
       \A e \in etablissements' :
         (pc = "rows" /\ \A x \in etablissements : x.id # e.id) =>
           /\ e.type = DefaultInfo.type
           /\ e.adresse = DefaultInfo.adresse
           /\ e.ville = DefaultInfo.ville
           /\ e.province = DefaultInfo.province]_vars

\* C26: validate_numeric_range returns exactly the rows of the batch whose
\* cell is a number within [min_val, max_val], in their order in the batch
\* and none other; a call that drops rows logs an anomaly; when the column
\* is absent the batch is returned as it is and one anomaly is logged.
C26_ValidateRange ==
  validator.calls > 0 =>
    LET df == validator.df
        result == validator.result
        numeric(i) == to_numeric(df[i].cell) # NoneNum
        valid(i) == /\ numeric(i)
                    /\ to_numeric(df[i].cell)[1] >= validator.min_val
                    /\ to_numeric(df[i].cell)[1] <= validator.max_val
    IN  IF ~validator.has_column
        THEN result = df /\ validator.logged = 1
        ELSE /\ {result[k].n : k \in DOMAIN result} = {i \in DOMAIN df : valid(i)}
             /\ \A k \in DOMAIN result : result[k].cell = df[result[k].n].cell
             /\ \A j, k \in DOMAIN result : j < k => result[j].n < result[k].n
             /\ Len(result) < Len(df) => validator.logged >= 1

\* A validation, after an earlier one that logged an anomaly, that dropped
\* a row whose cell is not a number and kept a row.
C26_Witness ==
  /\ validator.has_column
  /\ Len(validator.result) >= 1
  /\ \E i \in DOMAIN validator.df : to_numeric(validator.df[i].cell) = NoneNum
  /\ validator.logged = 1
  /\ Len(validator.anomalies) >= 2

\* C27: normalize_text is idempotent for both settings of remove_accents;
\* its output holds no punctuation character, no leading or trailing space
\* and no two consecutive spaces; for None it returns the empty text.
C27_NormalizeKey ==
  normalized.calls > 0 =>
    LET out == normalized.once
    IN  /\ normalized.twice = out
        /\ \A i \in DOMAIN out : out[i] \notin Punctuation
        /\ out # <<>> => ~IsSpace(out[1]) /\ ~IsSpace(out[Len(out)])
        /\ \A i \in 1..(Len(out) - 1) : ~(IsSpace(out[i]) /\ IsSpace(out[i + 1]))
        /\ normalized.text = NullText => out = <<>>

C29_WaitForDatabase ==
  /\ [](
         LET attempts == connection.attempts
         IN  /\ Len(attempts) <= MaxRetries
             /\ connection.result = "True" =>
                   /\ attempts # <<>>
                   /\ attempts[Len(attempts)] = "ok"
                   /\ \A i \in 1..(Len(attempts) - 1) : attempts[i] = "OperationalError"
             /\ connection.result = "False" <=>
                   /\ connection.pc = "returned"
                   /\ Len(attempts) = MaxRetries
                   /\ \A i \in DOMAIN attempts : attempts[i] = "OperationalError"
             /\ (connection.result = "False" /\ threads.download.n > connection.before) =>
                   ~threads.download.setup /\ pc = "idle")
  /\ [][connection.result = "False" =>
          UNCHANGED <<etablissements, urgences_etat_actuel, urgences_historique,
                      db, pc, date_extraction>>]_vars
  /\ (connection.pc = "waiting") ~> (connection.pc \in {"returned", "raised"})

\* update_urgences_data was called after wait_for_database returned False,
\* the store holding what an earlier cycle committed.
C29_Witness ==
  /\ connection.result = "False"
  /\ threads.download.n > connection.before
  /\ urgences_etat_actuel # <<>>

\* C30: after any runs of the region initialisers, one after the other, on
\* a table where no code occurs twice, no code occurs twice; after a run
\* of an initialiser that inserts each missing code, on any table, every
\* code of the list is in the table; a run of an initialiser that ran
\* before adds nothing.
C30_SeedingIdempotentComplete ==
  LET n == Len(seeding.runs)
      Unique(table) == \A r1, r2 \in table : r1.rss = r2.rss => r1 = r2
  IN  /\ Unique(seeding.start) => Unique(regions)
      /\ (n > 0 /\ seeding.runs[n] \in PerCode) =>
            \A i \in DOMAIN REGIONS_QUEBEC : \E r \in regions : r.rss = REGIONS_QUEBEC[i].rss
      /\ (n > 1 /\ \E i \in 1..(n - 1) : seeding.runs[i] = seeding.runs[n]) =>
            regions = seeding.before

\* init_regions ran twice on a table that had another code and lacked the
\* code 06: the first run added it, the second nothing.
C30_Witness ==
  /\ seeding.runs = <<"fix_tables.init_regions", "fix_tables.init_regions">>
  /\ seeding.start # {}
  /\ ~\E r \in seeding.start : r.rss = <<"0", "6">>
  /\ \E r \in regions : r.rss = <<"0", "6">>
  /\ regions = seeding.before

====
